---- MODULE Spec2Model ----
(***************************************************************************)
(* Model of the LLM proxy: the agentic iteration engines of                *)
(* gemini_proxy_server.py (GeminiProxy) and proxy_server.py                *)
(* (DeepSeekProxy) and the tool server manager of mcp_servers/mcp_client.py *)
(*                                                                         *)
(* Texts are sequences of string tokens, so that joining, blank tests and  *)
(* "appears before" are computed and not assumed.  Chinese literals of the *)
(* source are written as ASCII tokens of the same role.                    *)
(***************************************************************************)
EXTENDS Integers, Sequences, FiniteSets, TLC

VARIABLES
    pc,                         \* position of the request worker
    mode,                       \* "buffered" (GeminiProxy.process_request), "stream"
                                \* (GeminiProxy.process_request_stream), "deepseek"
                                \* (DeepSeekProxy.process_request) or "deepseek_stream"
                                \* (DeepSeekProxy.process_request_stream)
    contents,                   \* the caller's message list (request body "contents")
    tools,                      \* the caller's tool declarations (request body "tools")
    execute_mcp_tools,          \* request flag / config auto_execute_mcp_tools
    mcp_manager,                \* TRUE when a manager is attached to the proxy
    contents_copy,              \* the working conversation
    original_contents_length,   \* N0
    combined_tools,             \* tool list sent on every upstream call
    iteration,
    retry,                      \* retries made by the _make_gemini_request_with_retry in progress
    accumulated_thought_texts,
    accumulated_tool_texts,
    mcp_tool_calls,             \* manager-owned calls still to execute in this iteration
    function_responses,         \* functionResponse parts built so far in this iteration
    last_result,                \* the last 200 reply parsed (line 896)
    http_response,              \* what the route hands to the client
    servers,                    \* MCPManager.servers (names)
    connections,                \* MCPManager.connections (names with a live adapter)
    manager_tools,              \* MCPManager.tools: qualified name -> owning server
    attempt_log,                \* history: the failed attempts of the retry loop in progress
    upstream_calls,             \* history: number of upstream requests made
    dispatched,                 \* history: number of tool calls handed to the manager
    last_tool_result,           \* history: what the last dispatched tool call came back with
    issued,                     \* history: reasoning fragments and placeholders, in issue order
    sent,                       \* history: payload and live manager tools of the last upstream call, and whether one failed
    out,                        \* frames yielded to the client by process_request_stream
    stream_error,               \* the in-stream error kept for the retry loop ("" is None)
    messages,                   \* the caller's message list (OpenAI dialect)
    messages_copy,              \* DeepSeekProxy: the working conversation
    assistant_msg_index,        \* DeepSeekProxy: position of the merged assistant message (0 is None)
    chat_response,              \* DeepSeekProxy: what the route hands to the client
    reasoning_issued,           \* history: reasoning texts and flattened tool-call records, in issue order
    available,                  \* the server directories under mcp_servers/ that hold a usable config
    enabled_file,               \* the lines of mcp_servers/enabled.txt
    last_op,                    \* history: the last operation called on the manager
    CONFIG,                     \* the loaded config.json of the server (the keys of access control)
    auth,                       \* what the route made of the credentials of the last request
    file_workers,               \* the workers that run enable_server / disable_server of the side-file
    file_log,                   \* history: the side-file at first, the contents saved, the content a reader saw
    stdio_conn,                 \* one started MCPStdioConnection: request_id, pending_requests, the child's input
    stdio_callers,              \* the workers inside _send_request of that adapter
    life_workers,               \* the workers inside start_server / stop_server / reload_config
    adapters,                   \* the MCPStdioConnection objects created so far
    children,                   \* the child processes spawned so far: "alive" or "terminated"
    adapter_of,                 \* MCPManager.connections: name -> adapter
    harness,                    \* the last call made on an adapter directly, and what it returned
    handshake,                  \* one adapter inside start(): the requests sent, the replies, the result
    assembly                    \* process_request_stream of the OpenAI dialect, fragment by fragment

\* the request as received; never assigned after Init
request_input == <<mode, contents, tools, execute_mcp_tools, mcp_manager>>

\* the components modelled on their own (access control); the engines and the manager's
\* operations leave them alone
auth_vars == <<CONFIG, auth>>

\* the workers on the enabled side-file
file_vars == <<file_workers, file_log>>

\* one stdio adapter and its concurrent callers
stdio_vars == <<stdio_conn, stdio_callers>>

\* the adapters, their children and the workers of the manager's lifecycle operations
life_vars == <<life_workers, adapters, children, adapter_of, harness>>

\* the wire protocols of the adapters and of the OpenAI-dialect stream
protocol_vars == <<handshake, assembly>>

component_vars == <<auth_vars, file_vars, stdio_vars, life_vars, protocol_vars>>

\* the registry on disk and the history of the manager's operations
registry_vars == <<available, enabled_file, last_op>>

\* the state of the MCPManager shared by all workers, and what it is loaded from
manager_vars == <<servers, connections, manager_tools, registry_vars>>

\* the locals of the request worker and its history
request_vars == <<pc, contents_copy, original_contents_length, combined_tools, iteration,
                  retry, accumulated_thought_texts, accumulated_tool_texts,
                  mcp_tool_calls, function_responses, last_result, http_response,
                  attempt_log, upstream_calls, dispatched, last_tool_result, issued,
                  sent, out, stream_error>>

\* the part of the worker's state used by the streaming engine only
stream_vars == <<out, stream_error>>

\* the locals of DeepSeekProxy.process_request and its history
deepseek_vars == <<messages, messages_copy, assistant_msg_index, chat_response,
                   reasoning_issued>>

vars == <<request_input, component_vars, manager_vars, request_vars, deepseek_vars>>

----------------------------------------------------------------------------
(* Bounds and program constants *)

\* CONFIG max_iterations (default 100), bounded for checking
max_iterations == 2

\* CONFIG api_retry_count (default 2)
api_retry_count == 2

\* DeepSeekProxy.process_request: max_iterations = 10, bounded for checking
deepseek_max_iterations == 2

----------------------------------------------------------------------------
(* Texts *)

RECURSIVE Join(_, _)
\* sep.join(list) on token texts
Join(sep, list) ==
    IF list = <<>> THEN <<>>
    ELSE IF Len(list) = 1 THEN list[1]
    ELSE list[1] \o sep \o Join(sep, Tail(list))

Whitespace == {" ", "\n", "\n\n"}

\* text.strip() is empty
IsBlank(text) == \A i \in 1..Len(text) : text[i] \in Whitespace

\* f"\n\n<call tool: name|content: args>\n\n"
format_tool_call_text(tool_name, arguments) ==
    <<"\n\n", "<call tool:" \o tool_name \o "|content:" \o arguments \o ">", "\n\n">>

ToolExecFailed == <<"tool execution failed">>
ToolNotExist(tool_name) == <<"tool does not exist: " \o tool_name>>
ServerNotConnected(server_name) == <<"server not connected: " \o server_name>>
CallComplete == <<"call complete">>
MaxIterationsText == <<"[max tool call iterations reached]">>

Last(seq) == seq[Len(seq)]

\* pattern occurs in text at position p
OccursAt(text, pattern, p) ==
    /\ p >= 1
    /\ p + Len(pattern) - 1 <= Len(text)
    /\ \A i \in 1..Len(pattern) : text[p + i - 1] = pattern[i]

RECURSIVE ContainsInOrder(_, _, _)
\* every item of items occurs in text, each after the end of the one before,
\* starting at position from (leftmost matches)
ContainsInOrder(text, items, from) ==
    IF items = <<>> THEN TRUE
    ELSE LET hits == {p \in from..Len(text) : OccursAt(text, items[1], p)}
         IN  /\ hits # {}
             /\ LET p == CHOOSE q \in hits : \A r \in hits : q <= r
                IN  ContainsInOrder(text, Tail(items), p + Len(items[1]))

----------------------------------------------------------------------------
(* Parts, messages, envelopes *)

ThoughtPart(text, sig) ==
    [kind |-> "thought", text |-> text, name |-> "", args |-> "", sig |-> sig]
TextPart(text) ==
    [kind |-> "text", text |-> text, name |-> "", args |-> "", sig |-> ""]
CallPart(name, args, sig) ==
    [kind |-> "functionCall", text |-> <<>>, name |-> name, args |-> args, sig |-> sig]
ResponsePart(name, result) ==
    [kind |-> "functionResponse", text |-> result, name |-> name, args |-> "", sig |-> ""]

PartKinds == {"thought", "text", "functionCall", "functionResponse"}

\* variant: the message is built without the thoughtSignature of its parts
Message_Unsigned(role, parts) ==
    [role |-> role, parts |-> [i \in 1..Len(parts) |-> [parts[i] EXCEPT !.sig = ""]]]

Message(role, parts) == [role |-> role, parts |-> parts]

Candidate(parts, finishReason, fields) ==
    [parts |-> parts, role |-> "model", finishReason |-> finishReason, fields |-> fields]

Envelope(candidates, fields) == [candidates |-> candidates, fields |-> fields]

NoEnvelope == Envelope(<<>>, {})

RECURSIVE SelectParts(_, _)
SelectParts(parts, kinds) ==
    IF parts = <<>> THEN <<>>
    ELSE IF parts[1].kind \in kinds
         THEN <<parts[1]>> \o SelectParts(Tail(parts), kinds)
         ELSE SelectParts(Tail(parts), kinds)

----------------------------------------------------------------------------
(* Environment: what the upstream and the tool servers may answer *)

ManagedTool == "srv_t"
ClientTool == "cli"

ReplyFinal ==
    Envelope(<<Candidate(<<TextPart(<<"hello">>)>>, "STOP", {"index"})>>,
             {"usageMetadata", "modelVersion", "responseId"})

ReplyThoughtFinal ==
    Envelope(<<Candidate(<<ThoughtPart(<<"B">>, "sigB"), TextPart(<<"done">>)>>,
                         "", {"index", "safetyRatings"}),
               Candidate(<<TextPart(<<"alt">>)>>, "STOP", {"index"})>>,
             {"usageMetadata", "promptFeedback"})

ReplyBlankThought ==
    Envelope(<<Candidate(<<ThoughtPart(<<" ">>, ""), TextPart(<<"hello">>)>>,
                         "STOP", {"index"})>>,
             {"usageMetadata"})

ReplyManagerCall ==
    Envelope(<<Candidate(<<ThoughtPart(<<"A">>, ""), CallPart(ManagedTool, "{}", "sigA")>>,
                         "STOP", {"index"})>>,
             {"usageMetadata", "responseId"})

ReplyClientCall ==
    Envelope(<<Candidate(<<CallPart(ClientTool, "{}", "")>>, "STOP", {"index"})>>,
             {"usageMetadata"})

ReplyMixed ==
    Envelope(<<Candidate(<<CallPart(ManagedTool, "{}", ""), CallPart(ClientTool, "{}", "")>>,
                         "STOP", {"index"})>>,
             {"usageMetadata"})

ReplyNoCandidates == Envelope(<<>>, {"promptFeedback"})

Replies == {ReplyFinal, ReplyThoughtFinal, ReplyBlankThought, ReplyManagerCall,
            ReplyClientCall, ReplyMixed, ReplyNoCandidates}

\* one upstream HTTP exchange: an exception of requests, or a response
HttpResponse(status_code, is_json, text, envelope) ==
    [kind |-> "response", status_code |-> status_code, is_json |-> is_json,
     text |-> text, envelope |-> envelope]
RaisedTimeout ==
    [kind |-> "timeout", status_code |-> 0, is_json |-> FALSE, text |-> "",
     envelope |-> NoEnvelope]
RaisedRequestException ==
    [kind |-> "neterr", status_code |-> 0, is_json |-> FALSE, text |-> "",
     envelope |-> NoEnvelope]

ErrorResponses ==
    {HttpResponse(502, TRUE, "{error:{code:502}}", NoEnvelope),
     HttpResponse(500, FALSE, "<html>Internal Server Error</html>", NoEnvelope),
     HttpResponse(204, TRUE, "{}", NoEnvelope)}

UpstreamOutcomes ==
    {HttpResponse(200, TRUE, "", e) : e \in Replies}
        \cup ErrorResponses \cup {RaisedTimeout, RaisedRequestException}

\* Optional[str]
Some(text) == [some |-> TRUE, text |-> text]
None == [some |-> FALSE, text |-> <<>>]

\* what adapter.call_tool may do: return the joined text of the result (possibly
\* empty), the formatted JSON-RPC error, None (timeout, 202 ack, unreachable
\* server), or raise (stdio write to a dead child)
AdapterOutcomes == {"text", "empty", "error", "none", "raise"}

AdapterReturn(outcome) ==
    CASE outcome = "text"  -> Some(<<"R">>)
      [] outcome = "empty" -> Some(<<>>)
      [] outcome = "error" -> Some(<<"error: boom">>)
      [] OTHER             -> None

\* the server configured while a request is served
ServerNames == {"srv"}

\* the server directories of the registry, and a name without a directory
Directories == {"a", "a_b"}
OperandNames == Directories \cup {"ghost"}

\* tools/list of each server (local names)
ServerTools(name) ==
    CASE name = "a"   -> {"b_c", "t"}
      [] name = "a_b" -> {"c"}
      [] OTHER        -> {"t"}

----------------------------------------------------------------------------
(* Python str and the enabled side-file (mcp_servers/__init__.py) *)

\* the characters of the names and lines used here, in code-point order
Alphabet == " #._abcdefghijklmnopqrstuvwxyz"

Ord(c) == CHOOSE i \in 1..Len(Alphabet) : SubSeq(Alphabet, i, i) = c

RECURSIVE StrLess(_, _)
\* s < t on str
StrLess(s, t) ==
    IF Len(t) = 0 THEN FALSE
    ELSE IF Len(s) = 0 THEN TRUE
    ELSE IF SubSeq(s, 1, 1) # SubSeq(t, 1, 1)
         THEN Ord(SubSeq(s, 1, 1)) < Ord(SubSeq(t, 1, 1))
         ELSE StrLess(SubSeq(s, 2, Len(s)), SubSeq(t, 2, Len(t)))

RECURSIVE sorted(_)
\* sorted(set of str)
sorted(S) ==
    IF S = {} THEN <<>>
    ELSE LET least == CHOOSE x \in S : \A y \in S \ {x} : StrLess(x, y)
         IN  <<least>> \o sorted(S \ {least})

RECURSIVE lstrip(_)
lstrip(s) ==
    IF Len(s) > 0 /\ SubSeq(s, 1, 1) = " " THEN lstrip(SubSeq(s, 2, Len(s))) ELSE s

RECURSIVE rstrip(_)
rstrip(s) ==
    IF Len(s) > 0 /\ SubSeq(s, Len(s), Len(s)) = " "
    THEN rstrip(SubSeq(s, 1, Len(s) - 1))
    ELSE s

\* str.strip
strip(s) == lstrip(rstrip(s))

\* str.startswith
startswith(s, prefix) == Len(s) >= Len(prefix) /\ SubSeq(s, 1, Len(prefix)) = prefix

\* str.replace(old, "", 1): the leftmost occurrence of old is cut out
replace_first(s, old) ==
    LET hits == {i \in 1..(Len(s) - Len(old) + 1) : SubSeq(s, i, i + Len(old) - 1) = old}
    IN  IF hits = {} \/ Len(old) = 0 THEN s
        ELSE LET i == CHOOSE h \in hits : \A g \in hits : h <= g
             IN  SubSeq(s, 1, i - 1) \o SubSeq(s, i + Len(old), Len(s))

\* get_enabled_servers: the stripped lines that are neither empty nor comments
get_enabled_servers(file) ==
    {strip(file[i]) :
        i \in {j \in 1..Len(file) : strip(file[j]) # "" /\ ~startswith(strip(file[j]), "#")}}

\* the three comment lines and the empty line that save_enabled_servers writes first
FileHeader == <<"# enabled list", "# one name per line", "# others are off", "">>

\* save_enabled_servers
save_enabled_servers(enabled) == FileHeader \o sorted(enabled)

\* variant: enabling rewrites the file with the one name only
enable_server_file_Only(file, dirs, name) ==
    IF name \notin dirs THEN file ELSE save_enabled_servers({name})

\* enable_server of the module: the file after the call
enable_server_file(file, dirs, name) ==
    IF name \notin dirs THEN file
    ELSE save_enabled_servers(get_enabled_servers(file) \cup {name})

\* disable_server of the module: the file after the call
disable_server_file(file, name) ==
    IF name \in get_enabled_servers(file)
    THEN save_enabled_servers(get_enabled_servers(file) \ {name})
    ELSE file

\* get_available_servers: the listed servers that are enabled
EnabledOnDisk(file, dirs) ==
    {name \in dirs : /\ ~startswith(name, "_")
                     /\ ~startswith(name, ".")
                     /\ name \in get_enabled_servers(file)}

\* the contents enabled.txt may have before the program first writes it
InitialFiles ==
    {<<>>,
     <<"a">>,
     <<"# mine", " a_b ", "", "a", "a">>,
     <<"ghost", "#a">>}

----------------------------------------------------------------------------
(* Tool server manager (MCPManager) *)

\* f"{name}_{tool.name}"
QualifiedName(name, local) == name \o "_" \o local

RegisteredBy(name) == {QualifiedName(name, t) : t \in ServerTools(name)}

\* MCPManager.start_server: the tools map after the adapter started
RegisterTools(tools_map, name) ==
    [q \in DOMAIN tools_map \cup RegisteredBy(name) |->
        IF q \in RegisteredBy(name) THEN name ELSE tools_map[q]]

\* variant: stopping a server leaves its tools registered
RemoveTools_None(tools_map, name) == tools_map

\* MCPManager.stop_server: {k: v for k, v in tools.items() if v.server_name != name}
RemoveTools(tools_map, name) ==
    [q \in {k \in DOMAIN tools_map : tools_map[k] # name} |-> tools_map[q]]

start_server(name, started) ==
    /\ name \in servers
    /\ name \notin connections
    /\ IF started
       THEN /\ connections' = connections \cup {name}
            /\ manager_tools' = RegisterTools(manager_tools, name)
       ELSE UNCHANGED <<connections, manager_tools>>
    /\ UNCHANGED servers

stop_server(name) ==
    /\ name \in connections
    /\ manager_tools' = RemoveTools(manager_tools, name)
    /\ connections' = connections \ {name}
    /\ UNCHANGED servers

\* variant: the adapter is called without looking the tool up
call_tool_NoLookup(tool_name, outcome) == AdapterReturn(outcome)

\* MCPManager.call_tool: the lookup, then the adapter (whose behaviour is outcome)
call_tool(tool_name, outcome) ==
    IF tool_name \notin DOMAIN manager_tools
    THEN Some(ToolNotExist(tool_name))
    ELSE IF manager_tools[tool_name] \notin connections
         THEN Some(ServerNotConnected(manager_tools[tool_name]))
         ELSE AdapterReturn(outcome)

\* the adapter is reached and its call raises
call_tool_raises(tool_name, outcome) ==
    /\ tool_name \in DOMAIN manager_tools
    /\ manager_tools[tool_name] \in connections
    /\ outcome = "raise"

\* MCPManager.call_tool: the name handed to the adapter (the server prefix cut out)
original_name(tool_name) == replace_first(tool_name, manager_tools[tool_name] \o "_")

\* MCPManager.call_tool: the adapter that is called, and what it is called with
adapter_call(tool_name, arguments) ==
    [server |-> manager_tools[tool_name],
     name |-> original_name(tool_name),
     arguments |-> arguments]

\* the three dicts of an MCPManager
Manager(s, c, t) == [servers |-> s, connections |-> c, tools |-> t]

\* the orders in which a dict of these names can be iterated
Orders(names) ==
    {order \in [1..Cardinality(names) -> names] :
        \A i, j \in 1..Cardinality(names) : order[i] = order[j] => i = j}

RECURSIVE start_enabled_servers(_, _, _)
\* MCPManager.start_enabled_servers: start_server for every record, in dict order;
\* started holds the servers whose adapter starts
start_enabled_servers(m, order, started) ==
    IF order = <<>> THEN m
    ELSE LET name == Head(order)
             after == IF name \in m.servers /\ name \notin m.connections /\ name \in started
                      THEN Manager(m.servers, m.connections \cup {name},
                                   RegisterTools(m.tools, name))
                      ELSE m
         IN  start_enabled_servers(after, Tail(order), started)

\* MCPManager._load_from_directory
_load_from_directory(m, file, dirs, order, started) ==
    LET loaded == EnabledOnDisk(file, dirs)
        with_records == Manager(m.servers \cup loaded, m.connections, m.tools)
    IN  IF loaded = {} THEN with_records
        ELSE start_enabled_servers(with_records, order, started)

RECURSIVE stop_all_servers(_, _)
\* MCPManager.stop_all_servers: stop_server for every key of connections
stop_all_servers(m, names) ==
    IF names = {} THEN m
    ELSE LET name == CHOOSE x \in names : TRUE
         IN  stop_all_servers(Manager(m.servers, m.connections \ {name},
                                      RemoveTools(m.tools, name)),
                              names \ {name})

\* variant: the dicts are not cleared between stopping and loading
reload_config_NoClear(m, file, dirs, order, started) ==
    _load_from_directory(stop_all_servers(m, m.connections), file, dirs, order, started)

\* MCPManager.reload_config: stop everything, clear the three dicts, load again
reload_config(m, file, dirs, order, started) ==
    LET stopped == stop_all_servers(m, m.connections)
        cleared == Manager(stopped.servers \ stopped.servers,
                           stopped.connections \ stopped.connections, <<>>)
    IN  _load_from_directory(cleared, file, dirs, order, started)

----------------------------------------------------------------------------
(* GeminiProxy helpers *)

\* GeminiProxy._is_mcp_tool
_is_mcp_tool(tool_name) == mcp_manager /\ tool_name \in DOMAIN manager_tools

\* GeminiProxy._execute_mcp_tool
_execute_mcp_tool(tool_name, outcome) ==
    IF ~mcp_manager THEN None ELSE call_tool(tool_name, outcome)

Declaration(name, origin) == [name |-> name, origin |-> origin]

RECURSIVE SetToSeq(_)
SetToSeq(S) ==
    IF S = {} THEN <<>>
    ELSE LET x == CHOOSE y \in S : TRUE IN <<x>> \o SetToSeq(S \ {x})

\* GeminiProxy._get_mcp_tools_as_gemini_format: one declaration per manager tool
_get_mcp_tools ==
    IF ~mcp_manager THEN <<>>
    ELSE LET names == SetToSeq(DOMAIN manager_tools)
         IN  [i \in 1..Len(names) |-> Declaration(names[i], "mcp")]

\* tool list built at the top of process_request / process_request_stream
CombineTools == tools \o _get_mcp_tools

HasFunctionResponse(message) ==
    /\ message.role = "user"
    /\ \E i \in 1..Len(message.parts) : message.parts[i].kind = "functionResponse"

\* variant: the older tool results are taken out of the conversation
_replace_old_tool_results_Remove(msgs, n0) ==
    LET added == {i \in (n0 + 1)..Len(msgs) : HasFunctionResponse(msgs[i])}
        last_function_response_index ==
            IF added = {} THEN 0 ELSE CHOOSE i \in added : \A j \in added : j <= i
        kept == {i \in 1..Len(msgs) : i \notin added \/ i = last_function_response_index}
        Position(k) == CHOOSE i \in kept : Cardinality({j \in kept : j <= i}) = k
    IN  [k \in 1..Cardinality(kept) |-> msgs[Position(k)]]

\* variant: the most recent tool result is replaced like the older ones
_replace_old_tool_results_All(msgs, n0) ==
    [i \in 1..Len(msgs) |->
        IF i > n0 /\ msgs[i].role = "user"
        THEN [msgs[i] EXCEPT !.parts =
                 [k \in 1..Len(msgs[i].parts) |->
                     IF msgs[i].parts[k].kind = "functionResponse"
                     THEN [msgs[i].parts[k] EXCEPT !.text = CallComplete]
                     ELSE msgs[i].parts[k]]]
        ELSE msgs[i]]

\* variant: the messages of the caller are rewritten like the ones the engine added
_replace_old_tool_results_FromStart(msgs, n0) ==
    LET added == {i \in 1..Len(msgs) : HasFunctionResponse(msgs[i])}
        last_function_response_index ==
            IF added = {} THEN 0 ELSE CHOOSE i \in added : \A j \in added : j <= i
    IN  [i \in 1..Len(msgs) |->
            IF i # last_function_response_index /\ msgs[i].role = "user"
            THEN [msgs[i] EXCEPT !.parts =
                     [k \in 1..Len(msgs[i].parts) |->
                         IF msgs[i].parts[k].kind = "functionResponse"
                         THEN [msgs[i].parts[k] EXCEPT !.text = CallComplete]
                         ELSE msgs[i].parts[k]]]
            ELSE msgs[i]]

\* GeminiProxy._replace_old_tool_results
_replace_old_tool_results(msgs, n0) ==
    LET added == {i \in (n0 + 1)..Len(msgs) : HasFunctionResponse(msgs[i])}
        last_function_response_index ==
            IF added = {} THEN 0 ELSE CHOOSE i \in added : \A j \in added : j <= i
        Replaced(message) ==
            [message EXCEPT !.parts =
                [k \in 1..Len(message.parts) |->
                    IF message.parts[k].kind = "functionResponse"
                    THEN [message.parts[k] EXCEPT !.text = CallComplete]
                    ELSE message.parts[k]]]
    IN  [i \in 1..Len(msgs) |->
            IF i > n0 /\ i # last_function_response_index /\ msgs[i].role = "user"
            THEN Replaced(msgs[i])
            ELSE msgs[i]]

CopiedFields == {"usageMetadata", "modelVersion", "responseId"}

\* GeminiProxy._build_final_response_with_accumulated_thoughts
_build_final_response(result, thought_texts, tool_texts) ==
    LET kept == SelectSeq(thought_texts, LAMBDA t : ~IsBlank(t))
        thought_sections ==
            kept \o (IF tool_texts # <<>> THEN <<Join(<<"\n">>, tool_texts)>> ELSE <<>>)
        thought_part ==
            IF thought_sections # <<>>
            THEN <<ThoughtPart(Join(<<"\n\n">>, thought_sections), "")>>
            ELSE <<>>
        candidates == result.candidates
        rest == IF candidates # <<>>
                THEN SelectParts(candidates[1].parts, PartKinds \ {"thought", "functionCall"})
                ELSE <<>>
        finish == IF candidates = <<>> THEN ""
                  ELSE IF candidates[1].finishReason = "" THEN "STOP"
                  ELSE candidates[1].finishReason
    IN  Envelope(<<Candidate(thought_part \o rest, finish, {"index"})>>,
                 result.fields \cap CopiedFields)

----------------------------------------------------------------------------
(* What the route returns to the client *)

NoResponse == [status_code |-> 0, error_body |-> "", result |-> NoEnvelope]
OkResponse(result) == [status_code |-> 200, error_body |-> "", result |-> result]
ErrorResponse(status_code, body) ==
    [status_code |-> status_code, error_body |-> body, result |-> NoEnvelope]

TimeoutBody == "{error:{code:504,status:DEADLINE_EXCEEDED}}"
UnavailableBody == "{error:{code:503,status:UNAVAILABLE}}"
ServerErrorBody == "{error:{type:server_error}}"

\* variant: the body is wrapped without trying response.json()
error_response_Wrapped(response) == "{error:{message:" \o response.text \o "}}"

\* try: response.json()  except: {"error": {"message": response.text}}
error_response(response) ==
    IF response.is_json THEN response.text
    ELSE "{error:{message:" \o response.text \o "}}"

MaxIterationsReply ==
    Envelope(<<Candidate(<<TextPart(MaxIterationsText)>>, "MAX_TOKENS", {})>>, {})

----------------------------------------------------------------------------
(* GeminiProxy.process_request (buffered engine) *)

RECURSIVE IssueOrder(_)
\* the reasoning fragments and tool-call placeholders of a reply, in part order
IssueOrder(parts) ==
    IF parts = <<>> THEN <<>>
    ELSE (CASE parts[1].kind = "thought" -> <<parts[1].text>>
            [] parts[1].kind = "functionCall" ->
                 <<format_tool_call_text(parts[1].name, parts[1].args)>>
            [] OTHER -> <<>>) \o IssueOrder(Tail(parts))

\* texts of the parts with part.get('thought') and 'text' in part
ThoughtTexts(parts) ==
    LET th == SelectParts(parts, {"thought"}) IN [i \in 1..Len(th) |-> th[i].text]

\* GeminiProxy._get_function_calls
_get_function_calls(parts) == SelectParts(parts, {"functionCall"})

Placeholders(function_calls) ==
    [i \in 1..Len(function_calls) |->
        format_tool_call_text(function_calls[i].name, function_calls[i].args)]

Return(response) ==
    /\ http_response' = response
    /\ pc' = "done"

\* lines 844-863: merge the tool lists, copy the conversation, record N0
process_request_entry ==
    /\ pc = "start"
    /\ mode = "buffered"
    /\ combined_tools' = CombineTools
    /\ contents_copy' = contents
    /\ original_contents_length' = Len(contents)
    /\ iteration' = 0
    /\ accumulated_thought_texts' = <<>>
    /\ accumulated_tool_texts' = <<>>
    /\ pc' = "loop"
    /\ UNCHANGED <<request_input, component_vars,
                 manager_vars, deepseek_vars, stream_vars, retry, mcp_tool_calls,
                   function_responses, last_result, http_response, attempt_log,
                   upstream_calls, dispatched, last_tool_result, issued, sent>>

\* lines 504 and 853: contents_copy holds a copy of each message dict of the caller, and
\* the copy shares its "parts" list with the original; the caller's list holds the
\* roles it was sent with and the parts as the engine left them
CallersContents ==
    IF contents_copy = <<>>
    THEN contents
    ELSE [i \in 1..Len(contents) |->
             [contents[i] EXCEPT !.parts = contents_copy[i].parts]]

\* variant: the loop without its iteration cap
LoopContinues_NoCap == TRUE

\* lines 855 and 865: max_iterations = CONFIG.get('max_iterations', 100), then
\* while iteration < max_iterations
LoopContinues == iteration < CONFIG.max_iterations

\* lines 865-867 and 988-997: the loop test, then history rewriting
loop_head ==
    /\ pc = "loop"
    /\ mode = "buffered"
    /\ IF LoopContinues
       THEN /\ contents_copy' =
                   _replace_old_tool_results(contents_copy, original_contents_length)
            /\ retry' = 0
            /\ attempt_log' = <<>>
            /\ pc' = "upstream"
            /\ UNCHANGED http_response
       ELSE /\ Return(OkResponse(MaxIterationsReply))
            /\ UNCHANGED <<contents_copy, retry, attempt_log>>
    /\ UNCHANGED <<request_input, component_vars,
                 manager_vars, deepseek_vars, stream_vars, original_contents_length,
                   combined_tools, iteration, accumulated_thought_texts,
                   accumulated_tool_texts, mcp_tool_calls, function_responses,
                   last_result, upstream_calls, dispatched, last_tool_result, issued,
                   sent>>

\* the upstream request failed: it raised, answered another status than 200, or its
\* stream carries an error envelope
Failed(response) ==
    \/ response.kind # "response"
    \/ response.status_code # 200
    \/ /\ "chunks" \in DOMAIN response
       /\ \E i \in 1..Len(response.chunks) : response.chunks[i].kind = "error"

\* history of one upstream request (_make_gemini_request)
_make_gemini_request(response) ==
    /\ upstream_calls' = upstream_calls + 1
    /\ sent' = [contents |-> contents_copy, tools |-> combined_tools,
                live |-> IF mcp_manager THEN DOMAIN manager_tools ELSE {},
                failed |-> sent.failed \/ Failed(response)]

\* variant: the retry loop without the is_internal_call test
ShouldRetry_EveryCall(response) ==
    /\ response.status_code # 200
    /\ retry < api_retry_count

\* _make_gemini_request_with_retry: another attempt follows this response
ShouldRetry(response) ==
    /\ iteration > 0
    /\ response.status_code # 200
    /\ retry < api_retry_count

\* lines 880-885: requests raised Timeout / RequestException
upstream_raises(response) ==
    /\ pc = "upstream"
    /\ mode = "buffered"
    /\ response.kind \in {"timeout", "neterr"}
    /\ _make_gemini_request(response)
    /\ attempt_log' = Append(attempt_log, response)
    /\ Return(IF response.kind = "timeout"
              THEN ErrorResponse(504, TimeoutBody)
              ELSE ErrorResponse(503, UnavailableBody))
    /\ UNCHANGED <<request_input, component_vars,
                 manager_vars, deepseek_vars, stream_vars, contents_copy,
                   original_contents_length, combined_tools, iteration, retry,
                   accumulated_thought_texts, accumulated_tool_texts, mcp_tool_calls,
                   function_responses, last_result, dispatched, last_tool_result,
                   issued>>

\* lines 367-385: the response is discarded and the request sent again
upstream_retry(response) ==
    /\ pc = "upstream"
    /\ response.kind = "response"
    /\ ShouldRetry(response)
    /\ _make_gemini_request(response)
    /\ attempt_log' = Append(attempt_log, response)
    /\ retry' = retry + 1
    /\ UNCHANGED <<request_input, component_vars,
                 manager_vars, deepseek_vars, stream_vars, pc, contents_copy,
                   original_contents_length, combined_tools, iteration,
                   accumulated_thought_texts, accumulated_tool_texts, mcp_tool_calls,
                   function_responses, last_result, http_response, dispatched,
                   last_tool_result, issued>>

\* lines 887-893: a status other than 200 is returned with the upstream's status
upstream_error(response) ==
    /\ pc = "upstream"
    /\ mode = "buffered"
    /\ response.kind = "response"
    /\ ~ShouldRetry(response)
    /\ response.status_code # 200
    /\ _make_gemini_request(response)
    /\ attempt_log' = Append(attempt_log, response)
    /\ Return(ErrorResponse(response.status_code, error_response(response)))
    /\ UNCHANGED <<request_input, component_vars,
                 manager_vars, deepseek_vars, stream_vars, contents_copy,
                   original_contents_length, combined_tools, iteration, retry,
                   accumulated_thought_texts, accumulated_tool_texts, mcp_tool_calls,
                   function_responses, last_result, dispatched, last_tool_result,
                   issued>>

\* the reply built for the client when the loop ends on this result
FinalResult(result, thought_texts, tool_texts) ==
    IF thought_texts # <<>> \/ tool_texts # <<>>
    THEN _build_final_response(result, thought_texts, tool_texts)
    ELSE result

\* variant: the calls are classified without the execute_mcp_tools test
ManagerOwned_Always(function_calls) ==
    SelectSeq(function_calls, LAMBDA fc : fc.name \in DOMAIN manager_tools)

\* variant: only the first manager-owned call of a reply is executed
ManagerOwned_First(function_calls) ==
    IF execute_mcp_tools /\ mcp_manager
    THEN LET owned == SelectSeq(function_calls, LAMBDA fc : _is_mcp_tool(fc.name))
         IN  IF owned = <<>> THEN <<>> ELSE <<Head(owned)>>
    ELSE <<>>

\* lines 938-947: the manager-owned calls of a reply
ManagerOwned(function_calls) ==
    IF execute_mcp_tools /\ mcp_manager
    THEN SelectSeq(function_calls, LAMBDA fc : _is_mcp_tool(fc.name))
    ELSE <<>>

\* lines 895-986: a 200 reply is parsed; the loop returns or goes on to dispatch
upstream_reply(response) ==
    /\ pc = "upstream"
    /\ mode = "buffered"
    /\ response.kind = "response"
    /\ ~ShouldRetry(response)
    /\ response.status_code = 200
    /\ _make_gemini_request(response)
    /\ attempt_log' = <<>>
    /\ retry' = 0
    /\ last_result' = response.envelope
    /\ LET result == response.envelope
           candidates == result.candidates
           parts == IF candidates = <<>> THEN <<>> ELSE candidates[1].parts
           thought_texts == accumulated_thought_texts \o ThoughtTexts(parts)
           function_calls == _get_function_calls(parts)
           tool_texts == accumulated_tool_texts \o Placeholders(function_calls)
           owned == ManagerOwned(function_calls)
       IN  /\ accumulated_thought_texts' = thought_texts
           /\ accumulated_tool_texts' = tool_texts
           /\ issued' = issued \o IssueOrder(parts)
           /\ IF owned # <<>>
              THEN /\ contents_copy' =
                          Append(contents_copy, Message(candidates[1].role, parts))
                   /\ mcp_tool_calls' = owned
                   /\ function_responses' = <<>>
                   /\ pc' = "dispatch"
                   /\ UNCHANGED http_response
              ELSE /\ Return(OkResponse(FinalResult(result, thought_texts, tool_texts)))
                   /\ UNCHANGED <<contents_copy, mcp_tool_calls, function_responses>>
    /\ UNCHANGED <<request_input, component_vars,
                 manager_vars, deepseek_vars, stream_vars, original_contents_length,
                   combined_tools, iteration, dispatched, last_tool_result>>

Raised == [some |-> FALSE, text |-> <<"raised">>]

\* result_data or "tool execution failed"
ResultOrFailed(result_data) ==
    IF result_data.some /\ result_data.text # <<>>
    THEN result_data.text ELSE ToolExecFailed

\* lines 959-981: one manager-owned call is executed; after the last one the
\* functionResponse message is appended and the next iteration starts.
\* An exception of the adapter leaves process_request and the route answers 500
\* (generate_content, lines 1083-1091).
execute_tool(outcome) ==
    /\ pc = "dispatch"
    /\ mode = "buffered"
    /\ LET fc == Head(mcp_tool_calls)
           result_data == _execute_mcp_tool(fc.name, outcome)
           responses == Append(function_responses,
                               ResponsePart(fc.name, ResultOrFailed(result_data)))
       IN  /\ dispatched' = dispatched + 1
           /\ IF mcp_manager /\ call_tool_raises(fc.name, outcome)
              THEN /\ Return(ErrorResponse(500, ServerErrorBody))
                   /\ last_tool_result' = Raised
                   /\ UNCHANGED <<contents_copy, iteration, mcp_tool_calls,
                                  function_responses>>
              ELSE /\ function_responses' = responses
                   /\ last_tool_result' = result_data
                   /\ mcp_tool_calls' = Tail(mcp_tool_calls)
                   /\ IF Tail(mcp_tool_calls) = <<>>
                      THEN /\ contents_copy' =
                                  Append(contents_copy, Message("user", responses))
                           /\ iteration' = iteration + 1
                           /\ pc' = "loop"
                      ELSE UNCHANGED <<contents_copy, iteration, pc>>
                   /\ UNCHANGED http_response
    /\ UNCHANGED <<request_input, component_vars,
                 manager_vars, deepseek_vars, stream_vars, original_contents_length,
                   combined_tools, retry, accumulated_thought_texts,
                   accumulated_tool_texts, last_result, attempt_log, upstream_calls,
                   issued, sent>>

----------------------------------------------------------------------------
(* GeminiProxy.process_request_stream (streaming engine) *)

\* the part of the worker's state used by the buffered engine only
buffered_vars == <<accumulated_thought_texts, accumulated_tool_texts, last_result,
                   http_response, issued>>

\* one SSE data line of the upstream, and one frame yielded to the client
DataChunk(envelope) == [kind |-> "data", envelope |-> envelope, text |-> ""]
ErrorChunk(text) == [kind |-> "error", envelope |-> NoEnvelope, text |-> text]
\* "data: [DONE]\n\n"
DoneFrame == [kind |-> "done", envelope |-> NoEnvelope, text |-> ""]

ChunkThought ==
    Envelope(<<Candidate(<<ThoughtPart(<<"A">>, "sigA")>>, "", {"index"})>>,
             {"modelVersion"})
ChunkText ==
    Envelope(<<Candidate(<<TextPart(<<"hello">>)>>, "STOP", {"index"})>>,
             {"usageMetadata", "modelVersion", "responseId"})
ChunkManagerCall ==
    Envelope(<<Candidate(<<CallPart(ManagedTool, "{}", "sigC")>>, "STOP", {"index"})>>,
             {"responseId"})
ChunkClientCall ==
    Envelope(<<Candidate(<<CallPart(ClientTool, "{}", "")>>, "STOP", {"index"})>>,
             {"usageMetadata"})
ChunkMixed ==
    Envelope(<<Candidate(<<CallPart(ManagedTool, "{}", ""), CallPart(ClientTool, "{}", "")>>,
                         "STOP", {"index"})>>,
             {"usageMetadata"})
StreamErrorBody == "{error:{code:500,status:INTERNAL}}"

\* the bodies a 200 streaming response may carry
StreamBodies ==
    {<<DataChunk(ChunkThought), DataChunk(ChunkManagerCall)>>,
     <<DataChunk(ChunkText)>>,
     <<ErrorChunk(StreamErrorBody)>>,
     <<DataChunk(ChunkText), ErrorChunk(StreamErrorBody)>>,
     <<DataChunk(ChunkClientCall)>>,
     <<DataChunk(ChunkMixed)>>,
     <<DataChunk(ChunkClientCall), DataChunk(ChunkText)>>,
     <<>>}

StreamResponse(chunks) ==
    [kind |-> "response", status_code |-> 200, is_json |-> TRUE, text |-> "",
     envelope |-> NoEnvelope, chunks |-> chunks]

StreamOutcomes ==
    {RaisedTimeout, RaisedRequestException} \cup ErrorResponses
        \cup {StreamResponse(chunks) : chunks \in StreamBodies}

RECURSIVE AllParts(_)
\* the parts of every candidate of a chunk (lines 599-610)
AllParts(candidates) ==
    IF candidates = <<>> THEN <<>>
    ELSE candidates[1].parts \o AllParts(Tail(candidates))

\* the locals of one pass over a stream
StreamStart(error) ==
    [yields |-> <<>>, accumulated_content_parts |-> <<>>, function_calls_parts |-> <<>>,
     received_any_content |-> FALSE, stream_error |-> error, last_fields |-> {},
     stop |-> "end"]

\* variant: an error envelope is retried although content was received before it
CanRetryStream_AfterContent(st, first_pass) == first_pass /\ iteration > 0

\* lines 583-585: an error envelope of the first pass leads to the retry loop
CanRetryStream(st, first_pass) ==
    first_pass /\ iteration > 0 /\ ~st.received_any_content

RECURSIVE ConsumeStream(_, _, _)
\* lines 559-619 (first_pass) and 647-710 (a stream after a successful
\* retry, where neither received_any_content nor last_chunk_data is set)
ConsumeStream(chunks, st, first_pass) ==
    IF chunks = <<>> THEN st
    ELSE LET data == Head(chunks)
         IN  IF data.kind = "error"
             THEN IF CanRetryStream(st, first_pass)
                  THEN [st EXCEPT !.stream_error = data.text,
                                  !.last_fields = {},
                                  !.stop = "retry"]
                  ELSE [st EXCEPT !.stream_error = IF first_pass THEN data.text ELSE @,
                                  !.yields = @ \o <<data, DoneFrame>>,
                                  !.stop = "return"]
             ELSE LET parts == AllParts(data.envelope.candidates)
                      calls == st.function_calls_parts \o _get_function_calls(parts)
                  IN  ConsumeStream(Tail(chunks),
                          [st EXCEPT
                              !.received_any_content = IF first_pass THEN TRUE ELSE @,
                              !.accumulated_content_parts = @ \o parts,
                              !.function_calls_parts = calls,
                              !.last_fields = IF first_pass THEN data.envelope.fields ELSE @,
                              !.yields = IF calls = <<>> THEN Append(@, data) ELSE @],
                          first_pass)

\* variant: the functionCall parts are sent as they are
PlaceholderChunk_CallParts(function_calls, last_fields) ==
    DataChunk(Envelope(<<Candidate(function_calls, "", {"index"})>>,
                       last_fields \cap {"modelVersion", "responseId"}))

\* lines 733-759: the placeholder block sent instead of the functionCall chunks
PlaceholderChunk(function_calls, last_fields) ==
    DataChunk(Envelope(
        <<Candidate(<<ThoughtPart(Join(<<"\n">>, Placeholders(function_calls)), "")>>,
                    "", {"index"})>>,
        last_fields \cap {"modelVersion", "responseId"}))

\* variant: the placeholder block is sent before the envelopes of the stream
StreamEnd_PlaceholderFirst(st) ==
    LET calls == st.function_calls_parts
        owned == ManagerOwned(calls)
        finished(frames) == [pc |-> "done", frames |-> st.yields \o frames, owned |-> <<>>]
    IN  IF st.stop = "return" THEN finished(<<>>)
        ELSE IF ~st.received_any_content /\ calls = <<>>
        THEN finished((IF st.stream_error # ""
                       THEN <<ErrorChunk(st.stream_error)>> ELSE <<>>) \o <<DoneFrame>>)
        ELSE IF calls = <<>> THEN finished(<<DoneFrame>>)
        ELSE IF owned = <<>>
        THEN finished(<<PlaceholderChunk(calls, st.last_fields), DoneFrame>>)
        ELSE [pc |-> "dispatch",
              frames |-> <<PlaceholderChunk(calls, st.last_fields)>> \o st.yields,
              owned |-> owned]

\* lines 720-815: what follows a stream read to its end
StreamEnd(st) ==
    LET calls == st.function_calls_parts
        owned == ManagerOwned(calls)
        finished(frames) == [pc |-> "done", frames |-> st.yields \o frames, owned |-> <<>>]
    IN  IF st.stop = "return" THEN finished(<<>>)
        ELSE IF ~st.received_any_content /\ calls = <<>>
        THEN finished((IF st.stream_error # ""
                       THEN <<ErrorChunk(st.stream_error)>> ELSE <<>>) \o <<DoneFrame>>)
        ELSE IF calls = <<>> THEN finished(<<DoneFrame>>)
        ELSE IF owned = <<>>
        THEN finished(<<PlaceholderChunk(calls, st.last_fields), DoneFrame>>)
        ELSE [pc |-> "dispatch",
              frames |-> Append(st.yields, PlaceholderChunk(calls, st.last_fields)),
              owned |-> owned]

\* the assignments made when a pass over a stream has ended
stream_continue(st) ==
    LET end == StreamEnd(st)
    IN  /\ out' = out \o end.frames
        /\ pc' = end.pc
        /\ IF end.pc = "dispatch"
           THEN /\ contents_copy' =
                       Append(contents_copy, Message("model", st.accumulated_content_parts))
                /\ mcp_tool_calls' = end.owned
                /\ function_responses' = <<>>
           ELSE UNCHANGED <<contents_copy, mcp_tool_calls, function_responses>>

\* variant: the generator ends without the [DONE] frame
Yield_NoDone(frames) ==
    /\ out' = out \o SelectSeq(frames, LAMBDA frame : frame.kind # "done")
    /\ pc' = "done"

\* the generator ends after yielding frames
Yield(frames) ==
    /\ out' = out \o frames
    /\ pc' = "done"

\* lines 495-509
stream_entry ==
    /\ pc = "start"
    /\ mode = "stream"
    /\ combined_tools' = CombineTools
    /\ contents_copy' = contents
    /\ original_contents_length' = Len(contents)
    /\ iteration' = 0
    /\ pc' = "loop"
    /\ UNCHANGED <<request_input, component_vars,
                 manager_vars, deepseek_vars, buffered_vars, stream_vars, retry,
                   mcp_tool_calls, function_responses, attempt_log, upstream_calls,
                   dispatched, last_tool_result, sent>>

\* lines 511-513 and 817-828
stream_loop_head ==
    /\ pc = "loop"
    /\ mode = "stream"
    /\ IF LoopContinues
       THEN /\ contents_copy' =
                   _replace_old_tool_results(contents_copy, original_contents_length)
            /\ retry' = 0
            /\ attempt_log' = <<>>
            /\ pc' = "upstream"
            /\ UNCHANGED out
       ELSE /\ Yield(<<DataChunk(MaxIterationsReply), DoneFrame>>)
            /\ UNCHANGED <<contents_copy, retry, attempt_log>>
    /\ UNCHANGED <<request_input, component_vars,
                 manager_vars, deepseek_vars, buffered_vars, stream_error,
                   original_contents_length, combined_tools, iteration, mcp_tool_calls,
                   function_responses, upstream_calls, dispatched, last_tool_result,
                   sent>>

\* lines 526-537: requests raised Timeout / RequestException
stream_raises(response) ==
    /\ pc = "upstream"
    /\ mode = "stream"
    /\ response.kind \in {"timeout", "neterr"}
    /\ _make_gemini_request(response)
    /\ attempt_log' = Append(attempt_log, response)
    /\ Yield(<<ErrorChunk(IF response.kind = "timeout"
                          THEN TimeoutBody ELSE UnavailableBody), DoneFrame>>)
    /\ UNCHANGED <<request_input, component_vars,
                 manager_vars, deepseek_vars, buffered_vars, stream_error,
                   contents_copy, original_contents_length, combined_tools, iteration,
                   retry, mcp_tool_calls, function_responses, dispatched,
                   last_tool_result>>

\* lines 539-547: a status other than 200
stream_status_error(response) ==
    /\ pc = "upstream"
    /\ mode = "stream"
    /\ response.kind = "response"
    /\ ~ShouldRetry(response)
    /\ response.status_code # 200
    /\ _make_gemini_request(response)
    /\ attempt_log' = Append(attempt_log, response)
    /\ Yield(<<ErrorChunk(error_response(response)), DoneFrame>>)
    /\ UNCHANGED <<request_input, component_vars,
                 manager_vars, deepseek_vars, buffered_vars, stream_error,
                   contents_copy, original_contents_length, combined_tools, iteration,
                   retry, mcp_tool_calls, function_responses, dispatched,
                   last_tool_result>>

\* lines 549-815: a 200 response is read to its end
stream_reply(response) ==
    /\ pc = "upstream"
    /\ mode = "stream"
    /\ response.kind = "response"
    /\ ~ShouldRetry(response)
    /\ response.status_code = 200
    /\ _make_gemini_request(response)
    /\ attempt_log' = <<>>
    /\ retry' = 0
    /\ LET st == ConsumeStream(response.chunks, StreamStart(""), TRUE)
       IN  /\ stream_error' = st.stream_error
           /\ IF st.stop = "retry"
              THEN /\ IF api_retry_count > 0
                      THEN pc' = "s_retry" /\ UNCHANGED out
                      ELSE Yield(<<ErrorChunk(st.stream_error), DoneFrame>>)
                   /\ UNCHANGED <<contents_copy, mcp_tool_calls, function_responses>>
              ELSE stream_continue(st)
    /\ UNCHANGED <<request_input, component_vars,
                 manager_vars, deepseek_vars, buffered_vars,
                   original_contents_length, combined_tools, iteration, dispatched,
                   last_tool_result>>

\* the first data line of a retried stream is an error, or there is none
FirstLineFails(response) ==
    \/ response.status_code # 200
    \/ response.chunks = <<>>
    \/ Head(response.chunks).kind = "error"

\* lines 622-718: one pass of the in-stream retry loop
stream_retry(response) ==
    /\ pc = "s_retry"
    /\ mode = "stream"
    /\ retry < api_retry_count
    /\ _make_gemini_request(response)
    /\ IF response.kind # "response"
       THEN \* the exception leaves the generator: stream_generate_content.generate
            /\ Yield(<<ErrorChunk(ServerErrorBody), DoneFrame>>)
            /\ UNCHANGED <<retry, stream_error, contents_copy, mcp_tool_calls,
                           function_responses>>
       ELSE IF FirstLineFails(response)
       THEN /\ stream_error' =
                   IF response.status_code = 200 /\ response.chunks # <<>>
                   THEN Head(response.chunks).text ELSE stream_error
            /\ retry' = retry + 1
            /\ IF retry + 1 = api_retry_count
               THEN Yield(<<ErrorChunk(stream_error'), DoneFrame>>)
               ELSE UNCHANGED <<pc, out>>
            /\ UNCHANGED <<contents_copy, mcp_tool_calls, function_responses>>
       ELSE /\ stream_continue(ConsumeStream(response.chunks,
                                             StreamStart(stream_error), FALSE))
            /\ UNCHANGED <<retry, stream_error>>
    /\ UNCHANGED <<request_input, component_vars,
                 manager_vars, deepseek_vars, buffered_vars,
                   original_contents_length, combined_tools, iteration, attempt_log,
                   dispatched, last_tool_result>>

\* lines 783-806: one manager-owned call is executed; an exception of the adapter
\* leaves the generator and stream_generate_content.generate yields the error
stream_execute_tool(outcome) ==
    /\ pc = "dispatch"
    /\ mode = "stream"
    /\ LET fc == Head(mcp_tool_calls)
           result == _execute_mcp_tool(fc.name, outcome)
           responses == Append(function_responses,
                               ResponsePart(fc.name, ResultOrFailed(result)))
       IN  /\ dispatched' = dispatched + 1
           /\ IF mcp_manager /\ call_tool_raises(fc.name, outcome)
              THEN /\ Yield(<<ErrorChunk(ServerErrorBody), DoneFrame>>)
                   /\ last_tool_result' = Raised
                   /\ UNCHANGED <<contents_copy, iteration, mcp_tool_calls,
                                  function_responses>>
              ELSE /\ function_responses' = responses
                   /\ last_tool_result' = result
                   /\ mcp_tool_calls' = Tail(mcp_tool_calls)
                   /\ IF Tail(mcp_tool_calls) = <<>>
                      THEN /\ contents_copy' =
                                  Append(contents_copy, Message("user", responses))
                           /\ iteration' = iteration + 1
                           /\ pc' = "loop"
                      ELSE UNCHANGED <<contents_copy, iteration, pc>>
                   /\ UNCHANGED out
    /\ UNCHANGED <<request_input, component_vars,
                 manager_vars, deepseek_vars, buffered_vars, stream_error,
                   original_contents_length, combined_tools, retry, attempt_log,
                   upstream_calls, sent>>

----------------------------------------------------------------------------
(* DeepSeekProxy.process_request (buffered engine of the OpenAI dialect) *)

\* the part of the worker's state used by the Gemini engines only
gemini_vars == <<contents_copy, original_contents_length, retry, function_responses,
                 attempt_log, sent, buffered_vars, stream_vars>>

ToolCall(id, name, arguments, index) ==
    [id |-> id, name |-> name, arguments |-> arguments, type |-> "function",
     index |-> index]

ChatMessage(role, content, reasoning_content, tool_calls, tool_call_id) ==
    [role |-> role, content |-> content, reasoning_content |-> reasoning_content,
     tool_calls |-> tool_calls, tool_call_id |-> tool_call_id]

\* response.choices[0] of one chat completion (tool_calls <<>> is None)
Completion(reasoning_content, content, tool_calls, finish_reason) ==
    [reasoning_content |-> reasoning_content, content |-> content,
     tool_calls |-> tool_calls, finish_reason |-> finish_reason]

CompletionFinal == Completion(<<"R2">>, <<"done">>, <<>>, "stop")
CompletionPlain == Completion(<<>>, <<"done">>, <<>>, "stop")
CompletionManagerCall ==
    Completion(<<"R1">>, <<>>, <<ToolCall("c1", ManagedTool, "{}", 0)>>, "tool_calls")
CompletionSilentCall ==
    Completion(<<>>, <<>>, <<ToolCall("c2", ManagedTool, "{x}", 0)>>, "tool_calls")
CompletionClientCall ==
    Completion(<<"R3">>, <<>>, <<ToolCall("c3", ClientTool, "{}", 0)>>, "tool_calls")

Completions == {CompletionFinal, CompletionPlain, CompletionManagerCall,
                CompletionSilentCall, CompletionClientCall}

\* DeepSeekProxy._message_to_dict
_message_to_dict(message) ==
    ChatMessage("assistant", message.content, message.reasoning_content,
                message.tool_calls, "")

\* DeepSeekProxy._flatten_tool_calls: the id is dropped
_flatten_tool_calls(tool_calls) ==
    [i \in 1..Len(tool_calls) |->
        [name |-> tool_calls[i].name, arguments |-> tool_calls[i].arguments,
         type |-> tool_calls[i].type, index |-> tool_calls[i].index]]

RECURSIVE DumpFlattened(_)
DumpFlattened(flattened) ==
    IF flattened = <<>> THEN ""
    ELSE "{function:{name:" \o flattened[1].name \o ",arguments:"
            \o flattened[1].arguments \o "},type:" \o flattened[1].type
            \o ",index:" \o ToString(flattened[1].index) \o "}"
            \o (IF Len(flattened) > 1 THEN "," ELSE "")
            \o DumpFlattened(Tail(flattened))

\* json.dumps({"tool_calls": flattened_tools})
tools_json(tool_calls) ==
    <<"{tool_calls:[" \o DumpFlattened(_flatten_tool_calls(tool_calls)) \o "]}">>

RECURSIVE PopToolMessages(_)
\* while messages[-1].role == 'tool': messages.pop()
PopToolMessages(msgs) ==
    IF msgs # <<>> /\ Last(msgs).role = "tool"
    THEN PopToolMessages(SubSeq(msgs, 1, Len(msgs) - 1))
    ELSE msgs

\* DeepSeekProxy._merge_assistant_message
_merge_assistant_message(msgs, index, new_reasoning, new_content, new_tool_calls) ==
    LET popped == PopToolMessages(msgs)
    IN  IF index # 0 /\ index <= Len(popped)
        THEN LET prev_assistant == popped[index]
                 old_tool_calls == prev_assistant.tool_calls
                 old_reasoning ==
                     IF old_tool_calls # <<>>
                     THEN IF prev_assistant.reasoning_content # <<>>
                          THEN prev_assistant.reasoning_content \o <<"\n\n">>
                                   \o tools_json(old_tool_calls)
                          ELSE tools_json(old_tool_calls)
                     ELSE prev_assistant.reasoning_content
                 reasoned ==
                     IF new_reasoning # <<>>
                     THEN [prev_assistant EXCEPT !.reasoning_content =
                              IF old_reasoning # <<>>
                              THEN old_reasoning \o <<"\n\n">> \o new_reasoning
                              ELSE new_reasoning]
                     ELSE prev_assistant
                 merged ==
                     IF new_tool_calls # <<>>
                     THEN [reasoned EXCEPT !.tool_calls = new_tool_calls]
                     ELSE [reasoned EXCEPT !.tool_calls = <<>>, !.content = new_content]
             IN  [popped EXCEPT ![index] = merged]
        ELSE popped

NoChatResponse ==
    [status_code |-> 0, content |-> <<>>, reasoning_content |-> <<>>,
     tool_calls |-> <<>>, finish_reason |-> ""]

\* the chat.completion object built from the merged assistant message
ChatResult(final_msg, tool_calls, finish_reason) ==
    [status_code |-> 200, content |-> final_msg.content,
     reasoning_content |-> final_msg.reasoning_content, tool_calls |-> tool_calls,
     finish_reason |-> finish_reason]

DeepSeekMaxIterationsText == <<"max iterations reached">>

DeepSeekMaxIterationsReply ==
    [status_code |-> 200, content |-> DeepSeekMaxIterationsText,
     reasoning_content |-> <<>>, tool_calls |-> <<>>, finish_reason |-> "length"]

\* chat_completions: except Exception -> 500 server_error
ChatServerError ==
    [status_code |-> 500, content |-> <<>>, reasoning_content |-> <<>>,
     tool_calls |-> <<>>, finish_reason |-> ""]

\* lines 580-594
deepseek_entry ==
    /\ pc = "start"
    /\ mode = "deepseek"
    /\ combined_tools' = CombineTools
    /\ messages_copy' = messages
    /\ iteration' = 0
    /\ assistant_msg_index' = 0
    /\ pc' = "loop"
    /\ UNCHANGED <<request_input, component_vars,
                 manager_vars, gemini_vars, messages, chat_response,
                   reasoning_issued, mcp_tool_calls, upstream_calls, dispatched,
                   last_tool_result>>

\* lines 596-823: one chat completion is received, merged into the assistant
\* message, and the loop returns or goes on to dispatch
deepseek_reply(message) ==
    /\ pc = "loop"
    /\ mode = "deepseek"
    /\ iteration < deepseek_max_iterations
    /\ upstream_calls' = upstream_calls + 1
    /\ LET new_reasoning == message.reasoning_content
           new_tool_calls == message.tool_calls
           index == IF iteration = 0 THEN Len(messages_copy) + 1
                    ELSE assistant_msg_index
           merged == IF iteration = 0
                     THEN Append(messages_copy, _message_to_dict(message))
                     ELSE _merge_assistant_message(messages_copy, assistant_msg_index,
                                                   new_reasoning, message.content,
                                                   new_tool_calls)
           final_msg == merged[index]
           owned == ManagerOwned(new_tool_calls)
           non_mcp_tool_calls ==
               SelectSeq(new_tool_calls, LAMBDA tc : ~_is_mcp_tool(tc.name))
       IN  /\ messages_copy' = merged
           /\ assistant_msg_index' = index
           /\ reasoning_issued' =
                  reasoning_issued \o
                      (IF new_reasoning # <<>> THEN <<new_reasoning>> ELSE <<>>)
           /\ IF new_tool_calls = <<>> \/ message.finish_reason = "stop"
              THEN /\ chat_response' = ChatResult(final_msg, <<>>, message.finish_reason)
                   /\ pc' = "done"
                   /\ UNCHANGED mcp_tool_calls
              ELSE IF owned # <<>>
              THEN /\ mcp_tool_calls' = owned
                   /\ pc' = "dispatch"
                   /\ UNCHANGED chat_response
              ELSE /\ chat_response' =
                          ChatResult(final_msg,
                                     IF execute_mcp_tools /\ mcp_manager
                                     THEN non_mcp_tool_calls ELSE final_msg.tool_calls,
                                     "tool_calls")
                   /\ pc' = "done"
                   /\ UNCHANGED mcp_tool_calls
    /\ UNCHANGED <<request_input, component_vars,
                 manager_vars, gemini_vars, messages, combined_tools,
                   iteration, dispatched, last_tool_result>>

\* client.chat.completions.create raises; chat_completions answers 500
deepseek_upstream_raises ==
    /\ pc = "loop"
    /\ mode = "deepseek"
    /\ iteration < deepseek_max_iterations
    /\ upstream_calls' = upstream_calls + 1
    /\ chat_response' = ChatServerError
    /\ pc' = "done"
    /\ UNCHANGED <<request_input, component_vars,
                 manager_vars, gemini_vars, messages, messages_copy,
                   assistant_msg_index, reasoning_issued, combined_tools, iteration,
                   mcp_tool_calls, dispatched, last_tool_result>>

\* lines 825-843: the loop ends at the cap
deepseek_max_reached ==
    /\ pc = "loop"
    /\ mode = "deepseek"
    /\ ~(iteration < deepseek_max_iterations)
    /\ chat_response' = DeepSeekMaxIterationsReply
    /\ pc' = "done"
    /\ UNCHANGED <<request_input, component_vars,
                 manager_vars, gemini_vars, messages, messages_copy,
                   assistant_msg_index, reasoning_issued, combined_tools, iteration,
                   mcp_tool_calls, upstream_calls, dispatched, last_tool_result>>

\* lines 702-715: one manager-owned call is executed and its tool message appended
deepseek_execute_tool(outcome) ==
    /\ pc = "dispatch"
    /\ mode = "deepseek"
    /\ LET tc == Head(mcp_tool_calls)
           result == _execute_mcp_tool(tc.name, outcome)
       IN  /\ dispatched' = dispatched + 1
           /\ IF mcp_manager /\ call_tool_raises(tc.name, outcome)
              THEN /\ chat_response' = ChatServerError
                   /\ pc' = "done"
                   /\ last_tool_result' = Raised
                   /\ UNCHANGED <<messages_copy, iteration, mcp_tool_calls,
                                  reasoning_issued>>
              ELSE /\ messages_copy' =
                          Append(messages_copy,
                                 ChatMessage("tool", ResultOrFailed(result), <<>>, <<>>,
                                             tc.id))
                   /\ last_tool_result' = result
                   /\ mcp_tool_calls' = Tail(mcp_tool_calls)
                   /\ IF Tail(mcp_tool_calls) = <<>>
                      THEN /\ iteration' = iteration + 1
                           /\ reasoning_issued' =
                                  Append(reasoning_issued,
                                         tools_json(messages_copy[assistant_msg_index].tool_calls))
                           /\ pc' = "loop"
                      ELSE UNCHANGED <<iteration, reasoning_issued, pc>>
                   /\ UNCHANGED chat_response
    /\ UNCHANGED <<request_input, component_vars,
                 manager_vars, gemini_vars, messages,
                   assistant_msg_index, combined_tools, upstream_calls>>

----------------------------------------------------------------------------
(* DeepSeekProxy.process_request_stream (streaming engine of the OpenAI dialect) *)

\* one chat.completion.chunk frame: the delta it carries and its finish_reason
DeltaChunk(field, content, finish_reason) ==
    [kind |-> "delta", field |-> field, content |-> content,
     finish_reason |-> finish_reason]

\* chat_completions.generate: except Exception -> error chunk, then [DONE]
ChatStreamError == ErrorChunk("{error:{type:server_error,code:internal_error}}")

\* lines 337-386: the reasoning and content deltas are sent on as they arrive
ForwardedDeltas(message) ==
    (IF message.reasoning_content # <<>>
     THEN <<DeltaChunk("reasoning_content", message.reasoning_content, "")>> ELSE <<>>)
        \o (IF message.content # <<>>
            THEN <<DeltaChunk("content", message.content, "")>> ELSE <<>>)

\* lines 440-458: the flattened tool calls, sent as reasoning
ToolCallsReasoning(message) ==
    (IF message.reasoning_content # <<>> THEN <<"\n\n">> ELSE <<>>)
        \o tools_json(message.tool_calls) \o <<"\n\n">>

\* lines 306-319
deepseek_stream_entry ==
    /\ pc = "start"
    /\ mode = "deepseek_stream"
    /\ combined_tools' = CombineTools
    /\ messages_copy' = messages
    /\ iteration' = 0
    /\ pc' = "loop"
    /\ UNCHANGED <<request_input, component_vars,
                 manager_vars, gemini_vars, messages, chat_response,
                   reasoning_issued, assistant_msg_index, mcp_tool_calls, upstream_calls,
                   dispatched, last_tool_result>>

\* lines 321-539: one streamed completion is read to its end; the engine ends the
\* stream or goes on to dispatch
deepseek_stream_reply(message) ==
    /\ pc = "loop"
    /\ mode = "deepseek_stream"
    /\ iteration < deepseek_max_iterations
    /\ upstream_calls' = upstream_calls + 1
    /\ LET owned == ManagerOwned(message.tool_calls)
       IN  IF message.tool_calls = <<>> \/ message.finish_reason = "stop"
           THEN /\ Yield(ForwardedDeltas(message)
                            \o <<DeltaChunk("", <<>>, message.finish_reason), DoneFrame>>)
                /\ UNCHANGED <<messages_copy, mcp_tool_calls>>
           ELSE IF owned # <<>>
           THEN /\ out' = out \o ForwardedDeltas(message)
                          \o <<DeltaChunk("reasoning_content",
                                          ToolCallsReasoning(message), "")>>
                /\ messages_copy' =
                       Append(messages_copy,
                              ChatMessage("assistant", message.content,
                                          IF message.reasoning_content # <<>>
                                          THEN message.reasoning_content
                                                   \o ToolCallsReasoning(message)
                                          ELSE tools_json(message.tool_calls),
                                          message.tool_calls, ""))
                /\ mcp_tool_calls' = owned
                /\ pc' = "dispatch"
           ELSE /\ Yield(ForwardedDeltas(message)
                            \o <<DeltaChunk("", <<>>, "tool_calls"), DoneFrame>>)
                /\ UNCHANGED <<messages_copy, mcp_tool_calls>>
    /\ UNCHANGED <<request_input, component_vars,
                 manager_vars, buffered_vars, stream_error, contents_copy,
                   original_contents_length, retry, function_responses, attempt_log,
                   sent, messages, chat_response, reasoning_issued, assistant_msg_index,
                   combined_tools, iteration, dispatched, last_tool_result>>

\* client.chat.completions.create or the iteration over its stream raises, after the
\* deltas received so far were sent on
deepseek_stream_raises(message) ==
    /\ pc = "loop"
    /\ mode = "deepseek_stream"
    /\ iteration < deepseek_max_iterations
    /\ upstream_calls' = upstream_calls + 1
    /\ \E n \in 0..Len(ForwardedDeltas(message)) :
          Yield(SubSeq(ForwardedDeltas(message), 1, n) \o <<ChatStreamError, DoneFrame>>)
    /\ UNCHANGED <<request_input, component_vars,
                 manager_vars, buffered_vars, stream_error, contents_copy,
                   original_contents_length, retry, function_responses, attempt_log,
                   sent, messages, messages_copy, chat_response, reasoning_issued,
                   assistant_msg_index, combined_tools, iteration, mcp_tool_calls,
                   dispatched, last_tool_result>>

\* lines 541-557: the loop ends at the cap
deepseek_stream_max_reached ==
    /\ pc = "loop"
    /\ mode = "deepseek_stream"
    /\ ~(iteration < deepseek_max_iterations)
    /\ Yield(<<DeltaChunk("content", DeepSeekMaxIterationsText, "length"), DoneFrame>>)
    /\ UNCHANGED <<request_input, component_vars,
                 manager_vars, buffered_vars, stream_error, contents_copy,
                   original_contents_length, retry, function_responses, attempt_log,
                   sent, messages, messages_copy, chat_response, reasoning_issued,
                   assistant_msg_index, combined_tools, iteration, mcp_tool_calls,
                   upstream_calls, dispatched, last_tool_result>>

\* lines 492-503: one manager-owned call is executed and its tool message appended;
\* an exception of the adapter leaves the generator
deepseek_stream_execute_tool(outcome) ==
    /\ pc = "dispatch"
    /\ mode = "deepseek_stream"
    /\ LET tc == Head(mcp_tool_calls)
           result == _execute_mcp_tool(tc.name, outcome)
       IN  /\ dispatched' = dispatched + 1
           /\ IF mcp_manager /\ call_tool_raises(tc.name, outcome)
              THEN /\ Yield(<<ChatStreamError, DoneFrame>>)
                   /\ last_tool_result' = Raised
                   /\ UNCHANGED <<messages_copy, iteration, mcp_tool_calls>>
              ELSE /\ messages_copy' =
                          Append(messages_copy,
                                 ChatMessage("tool", ResultOrFailed(result), <<>>, <<>>,
                                             tc.id))
                   /\ last_tool_result' = result
                   /\ mcp_tool_calls' = Tail(mcp_tool_calls)
                   /\ IF Tail(mcp_tool_calls) = <<>>
                      THEN iteration' = iteration + 1 /\ pc' = "loop"
                      ELSE UNCHANGED <<iteration, pc>>
                   /\ UNCHANGED out
    /\ UNCHANGED <<request_input, component_vars,
                 manager_vars, buffered_vars, stream_error, contents_copy,
                   original_contents_length, retry, function_responses, attempt_log,
                   sent, messages, chat_response, reasoning_issued, assistant_msg_index,
                   combined_tools, upstream_calls>>

----------------------------------------------------------------------------
(* Access control of the two surfaces (validate_access_key and the routes) *)

\* the keys of CONFIG that validate_access_key reads
Configs ==
    [access_keys : {<<>>, <<"k1">>, <<"k1", "k2">>},
     allow_user_api_key : BOOLEAN,
     api_key : {"", "sk"},
     max_iterations : {max_iterations}]

InList(key, list) == \E i \in 1..Len(list) : list[i] = key

\* the tuple (is_valid, api_key, error_msg); api_key is <<>> for None
Verdict(is_valid, api_key, error_msg) ==
    [is_valid |-> is_valid, api_key |-> api_key, error_msg |-> error_msg]

\* the mutant: user keys are let through only when no list is configured
validate_access_key_ListOnly(config, auth_header) ==
    IF config.access_keys = <<>>
    THEN IF config.allow_user_api_key /\ auth_header # ""
         THEN Verdict(TRUE, <<auth_header>>, "")
         ELSE IF config.api_key # ""
              THEN Verdict(TRUE, <<config.api_key>>, "")
              ELSE Verdict(TRUE, <<auth_header>>, "")
    ELSE IF InList(auth_header, config.access_keys)
         THEN IF config.api_key # ""
              THEN Verdict(TRUE, <<config.api_key>>, "")
              ELSE Verdict(FALSE, <<>>, "Server API key not configured")
         ELSE Verdict(FALSE, <<>>, "Invalid access key")

\* gemini_proxy_server.validate_access_key (lines 105-136): the header value is the key
validate_access_key(config, auth_header) ==
    LET user_key == auth_header
    IN  IF config.access_keys = <<>>
        THEN IF config.allow_user_api_key /\ user_key # ""
             THEN Verdict(TRUE, <<user_key>>, "")
             ELSE IF config.api_key # ""
                  THEN Verdict(TRUE, <<config.api_key>>, "")
                  ELSE Verdict(TRUE, <<user_key>>, "")
        ELSE IF InList(user_key, config.access_keys)
             THEN IF config.api_key # ""
                  THEN Verdict(TRUE, <<config.api_key>>, "")
                  ELSE Verdict(FALSE, <<>>, "Server API key not configured")
             ELSE IF config.allow_user_api_key
                  THEN Verdict(TRUE, <<user_key>>, "")
                  ELSE Verdict(FALSE, <<>>, "Invalid access key")

\* proxy_server.validate_access_key (lines 116-153): the header must hold a bearer
\* token; lines 126-153 are the statements of the other surface on auth_header[7:]
chat_validate_access_key(config, auth_header) ==
    IF ~startswith(auth_header, "Bearer ")
    THEN Verdict(FALSE, <<>>, "Missing or invalid Authorization header")
    ELSE validate_access_key(config, SubSeq(auth_header, 8, Len(auth_header)))

\* the credential headers of a request
Headers ==
    [x_goog_api_key : {"", "k1", "zz"},
     Authorization : {"", "Bearer k1", "Bearer k2", "Bearer zz", "Bearer ", "k1"}]

\* what a route made of a request: the key it took from the headers (<<>> when it
\* found no place to take one from), the status it answered at once (0: it went on)
\* and the key handed to the engine for the upstream
Checked(route, headers, presented, verdict) ==
    [route |-> route, headers |-> headers, presented |-> presented,
     status_code |-> IF verdict.is_valid THEN 0 ELSE 401,
     error_msg |-> verdict.error_msg,
     upstream_key |-> verdict.api_key]

NotChecked == [route |-> "", headers |-> [x_goog_api_key |-> "", Authorization |-> ""],
               presented |-> <<>>, status_code |-> 0, error_msg |-> "",
               upstream_key |-> <<>>]

\* generate_content, lines 1009-1017 (stream_generate_content 1103-1111 is the same)
generate_content_key(headers) ==
    IF headers.x_goog_api_key # ""
    THEN headers.x_goog_api_key
    ELSE IF startswith(headers.Authorization, "Bearer ")
         THEN SubSeq(headers.Authorization, 8, Len(headers.Authorization))
         ELSE ""

engine_vars == <<request_input, manager_vars, request_vars, deepseek_vars>>

generate_content_auth(headers) ==
    /\ pc = "idle"
    /\ auth' = Checked("generate_content", headers, <<generate_content_key(headers)>>,
                       validate_access_key(CONFIG, generate_content_key(headers)))
    /\ UNCHANGED <<engine_vars, CONFIG, file_vars, stdio_vars, life_vars, protocol_vars>>

\* chat_completions, lines 855-858
chat_completions_auth(headers) ==
    /\ pc = "idle"
    /\ auth' = Checked("chat_completions", headers,
                       IF startswith(headers.Authorization, "Bearer ")
                       THEN <<SubSeq(headers.Authorization, 8, Len(headers.Authorization))>>
                       ELSE <<>>,
                       chat_validate_access_key(CONFIG, headers.Authorization))
    /\ UNCHANGED <<engine_vars, CONFIG, file_vars, stdio_vars, life_vars, protocol_vars>>

\* config.json as loaded: the defaults of load_config (lines 36-40 of either server)
DefaultConfig ==
    [access_keys |-> <<>>, allow_user_api_key |-> TRUE, api_key |-> "",
     max_iterations |-> max_iterations]

----------------------------------------------------------------------------
(* Concurrent workers on the enabled side-file (mcp_servers/__init__.py) *)

FileWorkers == {"w1", "w2"}

RECURSIVE Serialize(_)
\* the text of the file: every line is written with its newline (lines 48-54)
Serialize(lines) ==
    IF lines = <<>> THEN "" ELSE Head(lines) \o "\n" \o Serialize(Tail(lines))

RECURSIVE SplitLines(_)
\* "for line in f" (line 29), without the newlines
SplitLines(text) ==
    IF text = "" THEN <<>>
    ELSE LET ends == {i \in 1..Len(text) : SubSeq(text, i, i) = "\n"}
         IN  IF ends = {} THEN <<text>>
             ELSE LET i == CHOOSE e \in ends : \A f \in ends : e <= f
                  IN  <<SubSeq(text, 1, i - 1)>> \o SplitLines(SubSeq(text, i + 1, Len(text)))

\* a file object opened with 'w' writes its buffer at offset 0 when it is closed; what
\* another writer put behind the end of the buffer in the meantime stays
WriteAtStart(file, lines) ==
    SplitLines(Serialize(lines)
                   \o SubSeq(Serialize(file), Len(Serialize(lines)) + 1, Len(Serialize(file))))

FileWorkerIdle == [pc |-> "idle", op |-> "", name |-> "", enabled |-> {}]

FileLog(first, saved, observed) == [first |-> first, saved |-> saved, observed |-> observed]

\* the frame of a step on the side-file
but_file_vars ==
    <<request_input, request_vars, deepseek_vars, servers, connections, manager_tools,
      available, last_op, auth_vars, stdio_vars, life_vars, protocol_vars>>

\* enable_server lines 112-114, disable_server line 124: the call, and the test of the
\* directory for enable_server
file_call(w, op, name) ==
    /\ pc = "idle"
    /\ file_workers[w].pc = "idle"
    /\ file_workers' =
           [file_workers EXCEPT ![w] =
               [pc |-> IF op = "enable_server" /\ name \notin available
                       THEN "done" ELSE "read",
                op |-> op, name |-> name, enabled |-> {}]]
    /\ UNCHANGED <<but_file_vars, enabled_file, file_log>>

\* lines 116-117 and 124-126: get_enabled_servers(), then add or remove
file_read(w) ==
    /\ pc = "idle"
    /\ file_workers[w].pc = "read"
    /\ LET enabled == get_enabled_servers(enabled_file)
           name == file_workers[w].name
       IN  file_workers' =
               [file_workers EXCEPT ![w] =
                   IF @.op = "enable_server"
                   THEN [@ EXCEPT !.pc = "open", !.enabled = enabled \cup {name}]
                   ELSE IF name \in enabled
                        THEN [@ EXCEPT !.pc = "open", !.enabled = enabled \ {name}]
                        ELSE [@ EXCEPT !.pc = "done", !.enabled = enabled]]
    /\ UNCHANGED <<but_file_vars, enabled_file, file_log>>

\* save_enabled_servers line 49: open(ENABLED_FILE, 'w') truncates the file
file_open(w) ==
    /\ pc = "idle"
    /\ file_workers[w].pc = "open"
    /\ enabled_file' = <<>>
    /\ file_workers' = [file_workers EXCEPT ![w].pc = "write"]
    /\ file_log' = [file_log EXCEPT
                        !.saved = @ \cup {save_enabled_servers(file_workers[w].enabled)}]
    /\ UNCHANGED but_file_vars

\* lines 50-54: the writes go to the buffer of the file object, which is written out
\* when the with block closes the file
file_write(w) ==
    /\ pc = "idle"
    /\ file_workers[w].pc = "write"
    /\ enabled_file' =
           WriteAtStart(enabled_file, save_enabled_servers(file_workers[w].enabled))
    /\ file_workers' = [file_workers EXCEPT ![w].pc = "done"]
    /\ UNCHANGED <<but_file_vars, file_log>>

\* another worker reads the side-file (get_enabled_servers, lines 28-34)
file_observe ==
    /\ pc = "idle"
    /\ \E w \in FileWorkers : file_workers[w].pc # "idle"
    /\ file_log' = [file_log EXCEPT !.observed = enabled_file]
    /\ UNCHANGED <<but_file_vars, enabled_file, file_workers>>

FileIdle ==
    /\ file_workers = [w \in FileWorkers |-> FileWorkerIdle]
    /\ file_log = FileLog(<<>>, {}, <<>>)

----------------------------------------------------------------------------
(* Concurrent callers of one stdio adapter (mcp_client.py, MCPStdioConnection) *)

Callers == {"t1", "t2"}

\* _initialize and _list_tools have used the ids 1 and 2 when start() has returned
StartedRequestId == 2

\* the requests two callers can write
Requests == [id : (StartedRequestId + 1)..(StartedRequestId + 2), from : Callers]

NoMessage == [id |-> 0, answers |-> ""]

CallerIdle == [pc |-> "idle", loaded |-> 0, request_id |-> 0, response |-> NoMessage,
               raised |-> ""]

\* the adapter after start(): lines 253-258 and 268-291. pending_requests maps an id to
\* the queue registered under it, a queue being named by the caller that created it
StartedConnection ==
    [request_id |-> StartedRequestId, pending_requests |-> <<>>, stdin |-> {},
     queues |-> [c \in Callers |-> <<>>]]

but_stdio_vars == <<engine_vars, auth_vars, file_vars, life_vars, protocol_vars>>

\* call_tool line 421, _send_request lines 338-339: the process is there
send_request_call(c) ==
    /\ pc = "idle"
    /\ stdio_callers[c].pc = "idle"
    /\ stdio_callers' = [stdio_callers EXCEPT ![c].pc = "load"]
    /\ UNCHANGED <<but_stdio_vars, stdio_conn>>

\* line 341, self.request_id += 1: the attribute is read ...
send_request_load(c) ==
    /\ pc = "idle"
    /\ stdio_callers[c].pc = "load"
    /\ stdio_callers' = [stdio_callers EXCEPT ![c].pc = "store",
                                              ![c].loaded = stdio_conn.request_id]
    /\ UNCHANGED <<but_stdio_vars, stdio_conn>>

\* ... and the sum is stored
send_request_store(c) ==
    /\ pc = "idle"
    /\ stdio_callers[c].pc = "store"
    /\ stdio_conn' = [stdio_conn EXCEPT !.request_id = stdio_callers[c].loaded + 1]
    /\ stdio_callers' = [stdio_callers EXCEPT ![c].pc = "read"]
    /\ UNCHANGED but_stdio_vars

\* line 342: request_id = self.request_id
send_request_read(c) ==
    /\ pc = "idle"
    /\ stdio_callers[c].pc = "read"
    /\ stdio_callers' = [stdio_callers EXCEPT ![c].pc = "register",
                                              ![c].request_id = stdio_conn.request_id]
    /\ UNCHANGED <<but_stdio_vars, stdio_conn>>

\* lines 352-353: a new queue is put under the id
send_request_register(c) ==
    /\ pc = "idle"
    /\ stdio_callers[c].pc = "register"
    /\ stdio_conn' =
           [stdio_conn EXCEPT
               !.pending_requests =
                   [k \in DOMAIN @ \cup {stdio_callers[c].request_id} |->
                       IF k = stdio_callers[c].request_id THEN c ELSE @[k]]]
    /\ stdio_callers' = [stdio_callers EXCEPT ![c].pc = "write"]
    /\ UNCHANGED but_stdio_vars

\* lines 356-358: the request goes to the child
send_request_write(c) ==
    /\ pc = "idle"
    /\ stdio_callers[c].pc = "write"
    /\ stdio_conn' =
           [stdio_conn EXCEPT
               !.stdin = @ \cup {[id |-> stdio_callers[c].request_id, from |-> c]}]
    /\ stdio_callers' = [stdio_callers EXCEPT ![c].pc = "get"]
    /\ UNCHANGED but_stdio_vars

\* the child answers a request with its id; _read_responses and _handle_message (lines
\* 315-334) put the answer in the queue that is under the id now, or drop it
handle_message(request) ==
    /\ pc = "idle"
    /\ request \in stdio_conn.stdin
    /\ LET message == [id |-> request.id, answers |-> request.from]
       IN  stdio_conn' =
               [stdio_conn EXCEPT
                   !.stdin = @ \ {request},
                   !.queues =
                       IF request.id \in DOMAIN stdio_conn.pending_requests
                       THEN [@ EXCEPT ![stdio_conn.pending_requests[request.id]] =
                                          Append(@, message)]
                       ELSE @]
    /\ UNCHANGED <<but_stdio_vars, stdio_callers>>

\* lines 360-362: response_queue.get returns a message
send_request_get(c) ==
    /\ pc = "idle"
    /\ stdio_callers[c].pc = "get"
    /\ stdio_conn.queues[c] # <<>>
    /\ stdio_callers' = [stdio_callers EXCEPT ![c].pc = "del",
                                              ![c].response = Head(stdio_conn.queues[c])]
    /\ stdio_conn' = [stdio_conn EXCEPT !.queues[c] = Tail(@)]
    /\ UNCHANGED but_stdio_vars

\* lines 363-365: queue.Empty after the timeout
send_request_timeout(c) ==
    /\ pc = "idle"
    /\ stdio_callers[c].pc = "get"
    /\ stdio_conn.queues[c] = <<>>
    /\ stdio_callers' = [stdio_callers EXCEPT ![c].pc = "del"]
    /\ UNCHANGED <<but_stdio_vars, stdio_conn>>

\* lines 366-367: del self.pending_requests[request_id], a KeyError when the id is not
\* a key any more
send_request_del(c) ==
    /\ pc = "idle"
    /\ stdio_callers[c].pc = "del"
    /\ LET id == stdio_callers[c].request_id
       IN  IF id \in DOMAIN stdio_conn.pending_requests
           THEN /\ stdio_conn' =
                       [stdio_conn EXCEPT
                           !.pending_requests =
                               [k \in DOMAIN @ \ {id} |-> @[k]]]
                /\ stdio_callers' = [stdio_callers EXCEPT ![c].pc = "done"]
           ELSE /\ stdio_callers' = [stdio_callers EXCEPT ![c].pc = "done",
                                                          ![c].raised = "KeyError"]
                /\ UNCHANGED stdio_conn
    /\ UNCHANGED but_stdio_vars

\* lines 356-358: write or flush raises (the child has gone); the finally clause runs
send_request_write_raises(c) ==
    /\ pc = "idle"
    /\ stdio_callers[c].pc = "write"
    /\ stdio_callers' = [stdio_callers EXCEPT ![c].pc = "del",
                                              ![c].raised = "BrokenPipeError"]
    /\ UNCHANGED <<but_stdio_vars, stdio_conn>>

StdioIdle ==
    /\ stdio_conn = StartedConnection
    /\ stdio_callers = [c \in Callers |-> CallerIdle]

----------------------------------------------------------------------------
(* Adapters with child processes, and concurrent workers in the lifecycle operations
   of the manager (mcp_client.py, MCPStdioConnection and MCPManager) *)

LifeWorkers == {"w1", "w2"}

\* the servers the workers start and stop
LifeNames == {"a", "a_b"}

\* the calls one worker makes
MaxLifeCalls == 2

\* the adapters that are created
MaxAdapters == 2

\* the children one adapter spawns when start() is called on it directly
MaxChildren == 3

\* MCPStdioConnection.__init__ (lines 253-260); process is the number of the child, 0
\* for None
NewAdapter(name) == [name |-> name, process |-> 0, running |-> FALSE, tools |-> {}]

\* what start() meets: everything works; Popen raises (no child); an exception after
\* Popen, as a tool descriptor without "name" in _list_tools (line 413)
StartOutcomes == {"ok", "no_child", "raises"}

\* MCPStdioConnection.start (lines 262-297): the adapters afterwards
StartedAdapters(a, outcome) ==
    IF outcome = "no_child" THEN adapters
    ELSE [adapters EXCEPT
             ![a].process = Len(children) + 1,
             ![a].running = TRUE,
             ![a].tools = IF outcome = "ok" THEN ServerTools(adapters[a].name) ELSE {}]

\* ... the children afterwards (Popen, lines 273-280)
SpawnedChildren(outcome) ==
    IF outcome = "no_child" THEN children ELSE Append(children, "alive")

\* MCPStdioConnection.stop (lines 299-309)
StoppedAdapters(a) ==
    [adapters EXCEPT ![a].process = 0, ![a].running = FALSE, ![a].tools = {}]

\* ... terminate, wait, kill
TerminatedChildren(a) ==
    IF adapters[a].process = 0 THEN children
    ELSE [children EXCEPT ![adapters[a].process] = "terminated"]

\* d[k] = v and del d[k] on a dict
SetItem(d, k, v) == [x \in DOMAIN d \cup {k} |-> IF x = k THEN v ELSE d[x]]
DelItem(d, k) == [x \in DOMAIN d \ {k} |-> d[x]]

LifeWorkerIdle ==
    [pc |-> "idle", op |-> "", name |-> "", adapter |-> 0, todo |-> {}, filtered |-> <<>>,
     calls |-> 0, raised |-> ""]

\* the call returns to the route
Returned(worker) ==
    [LifeWorkerIdle EXCEPT !.calls = worker.calls + 1, !.raised = worker.raised]

Raises(worker, exception) ==
    [LifeWorkerIdle EXCEPT !.calls = worker.calls + 1, !.raised = exception]

\* stop_server returns: to stop_all_servers (line 769) or to the route
AfterStop(worker) ==
    IF worker.op = "reload_config"
    THEN [worker EXCEPT !.pc = "stop_all", !.adapter = 0, !.filtered = <<>>]
    ELSE Returned(worker)

\* start_server returns: to start_enabled_servers (line 730) or to the route
AfterStart(worker) ==
    IF worker.op = "reload_config" THEN [worker EXCEPT !.pc = "start_all", !.adapter = 0]
    ELSE Returned(worker)

but_life_vars ==
    <<request_input, request_vars, deepseek_vars, available, enabled_file, last_op,
      auth_vars, file_vars, stdio_vars, harness, protocol_vars>>

\* a route calls start_server, stop_server or reload_config; reload_config begins with
\* stop_all_servers, which lists the keys of connections (lines 722 and 769)
life_call(w, op, name) ==
    /\ pc = "idle"
    /\ life_workers[w].pc = "idle"
    /\ life_workers[w].calls < MaxLifeCalls
    /\ life_workers' =
           [life_workers EXCEPT ![w] =
               IF op = "reload_config"
               THEN [@ EXCEPT !.pc = "stop_all", !.op = op, !.todo = connections]
               ELSE [@ EXCEPT !.pc = op, !.op = op, !.name = name]]
    /\ UNCHANGED <<but_life_vars, servers, connections, manager_tools, adapters,
                   children, adapter_of>>

\* start_server lines 736-745: the two tests, then create_connection
life_start_check(w) ==
    /\ pc = "idle"
    /\ life_workers[w].pc = "start_server"
    /\ LET name == life_workers[w].name
       IN  IF name \notin servers \/ name \in connections
           THEN /\ life_workers' = [life_workers EXCEPT ![w] = AfterStart(@)]
                /\ UNCHANGED adapters
           ELSE /\ Len(adapters) < MaxAdapters
                /\ adapters' = Append(adapters, NewAdapter(name))
                /\ life_workers' =
                       [life_workers EXCEPT ![w].pc = "starting",
                                            ![w].adapter = Len(adapters) + 1]
    /\ UNCHANGED <<but_life_vars, servers, connections, manager_tools, children,
                   adapter_of>>

\* line 747: connection.start()
life_adapter_start(w, outcome) ==
    /\ pc = "idle"
    /\ life_workers[w].pc = "starting"
    /\ adapters' = StartedAdapters(life_workers[w].adapter, outcome)
    /\ children' = SpawnedChildren(outcome)
    /\ life_workers' =
           [life_workers EXCEPT ![w] =
               IF outcome = "ok" THEN [@ EXCEPT !.pc = "register"] ELSE AfterStart(@)]
    /\ UNCHANGED <<but_life_vars, servers, connections, manager_tools, adapter_of>>

\* lines 748-754: the adapter is put under the name and its tools are registered
life_register(w) ==
    /\ pc = "idle"
    /\ life_workers[w].pc = "register"
    /\ connections' = connections \cup {life_workers[w].name}
    /\ adapter_of' = SetItem(adapter_of, life_workers[w].name, life_workers[w].adapter)
    /\ manager_tools' = RegisterTools(manager_tools, life_workers[w].name)
    /\ life_workers' = [life_workers EXCEPT ![w] = AfterStart(@)]
    /\ UNCHANGED <<but_life_vars, servers, adapters, children>>

\* stop_server lines 760-761: the test and the lookup of the adapter
life_stop_check(w) ==
    /\ pc = "idle"
    /\ life_workers[w].pc = "stop_server"
    /\ life_workers' =
           [life_workers EXCEPT ![w] =
               IF @.name \in connections
               THEN [@ EXCEPT !.pc = "stopping", !.adapter = adapter_of[life_workers[w].name]]
               ELSE AfterStop(@)]
    /\ UNCHANGED <<but_life_vars, servers, connections, manager_tools, adapters,
                   children, adapter_of>>

\* line 761: .stop(), which waits for the child
life_adapter_stop(w) ==
    /\ pc = "idle"
    /\ life_workers[w].pc = "stopping"
    /\ adapters' = StoppedAdapters(life_workers[w].adapter)
    /\ children' = TerminatedChildren(life_workers[w].adapter)
    /\ life_workers' = [life_workers EXCEPT ![w].pc = "filter"]
    /\ UNCHANGED <<but_life_vars, servers, connections, manager_tools, adapter_of>>

\* line 763, the right-hand side: a new dict without the tools of the server
life_filter(w) ==
    /\ pc = "idle"
    /\ life_workers[w].pc = "filter"
    /\ life_workers' =
           [life_workers EXCEPT
               ![w].pc = "remove",
               ![w].filtered = RemoveTools(manager_tools, life_workers[w].name)]
    /\ UNCHANGED <<but_life_vars, servers, connections, manager_tools, adapters,
                   children, adapter_of>>

\* lines 763-764: self.tools is bound to the new dict, then del connections[name]
life_remove(w) ==
    /\ pc = "idle"
    /\ life_workers[w].pc = "remove"
    /\ manager_tools' = life_workers[w].filtered
    /\ IF life_workers[w].name \in connections
       THEN /\ connections' = connections \ {life_workers[w].name}
            /\ adapter_of' = DelItem(adapter_of, life_workers[w].name)
            /\ life_workers' = [life_workers EXCEPT ![w] = AfterStop(@)]
       ELSE /\ life_workers' = [life_workers EXCEPT ![w] = Raises(@, "KeyError")]
            /\ UNCHANGED <<connections, adapter_of>>
    /\ UNCHANGED <<but_life_vars, servers, adapters, children>>

\* stop_all_servers lines 769-770: the next of the listed names
life_stop_all(w) ==
    /\ pc = "idle"
    /\ life_workers[w].pc = "stop_all"
    /\ IF life_workers[w].todo = {}
       THEN life_workers' = [life_workers EXCEPT ![w].pc = "clear"]
       ELSE \E name \in life_workers[w].todo :
               life_workers' =
                   [life_workers EXCEPT ![w].pc = "stop_server", ![w].name = name,
                                        ![w].todo = @ \ {name}]
    /\ UNCHANGED <<but_life_vars, servers, connections, manager_tools, adapters,
                   children, adapter_of>>

\* reload_config lines 723-725: the three dicts are cleared
life_clear(w) ==
    /\ pc = "idle"
    /\ life_workers[w].pc = "clear"
    /\ servers' = {}
    /\ connections' = {}
    /\ adapter_of' = <<>>
    /\ manager_tools' = <<>>
    /\ life_workers' = [life_workers EXCEPT ![w].pc = "load"]
    /\ UNCHANGED <<but_life_vars, adapters, children>>

\* _load_from_directory lines 664-706: the records of the enabled servers; then
\* start_enabled_servers over self.servers when one was loaded
life_load(w) ==
    /\ pc = "idle"
    /\ life_workers[w].pc = "load"
    /\ servers' = servers \cup EnabledOnDisk(enabled_file, available)
    /\ life_workers' =
           [life_workers EXCEPT ![w] =
               IF EnabledOnDisk(enabled_file, available) = {} THEN Returned(@)
               ELSE [@ EXCEPT !.pc = "start_all", !.todo = servers']]
    /\ UNCHANGED <<but_life_vars, connections, manager_tools, adapters, children,
                   adapter_of>>

\* start_enabled_servers lines 730-732: the next record
life_start_all(w) ==
    /\ pc = "idle"
    /\ life_workers[w].pc = "start_all"
    /\ IF life_workers[w].todo = {}
       THEN life_workers' = [life_workers EXCEPT ![w] = Returned(@)]
       ELSE \E name \in life_workers[w].todo :
               life_workers' =
                   [life_workers EXCEPT ![w].pc = "start_server", ![w].name = name,
                                        ![w].todo = @ \ {name}]
    /\ UNCHANGED <<but_life_vars, servers, connections, manager_tools, adapters,
                   children, adapter_of>>

NotCalled == [call |-> "", adapter |-> 0, was_running |-> FALSE, returned |-> FALSE]

Called(call, a, returned) ==
    [call |-> call, adapter |-> a, was_running |-> adapters[a].running,
     returned |-> returned]

\* start() is called on an adapter, started or not (lines 262-297)
adapter_start(a, outcome) ==
    /\ pc = "idle"
    /\ a \in 1..Len(adapters)
    /\ Len(children) < MaxChildren
    /\ adapters' = StartedAdapters(a, outcome)
    /\ children' = SpawnedChildren(outcome)
    /\ harness' = Called("start", a, outcome = "ok")
    /\ UNCHANGED <<engine_vars, auth_vars, file_vars, stdio_vars, life_workers,
                   adapter_of, protocol_vars>>

\* stop() is called on an adapter (lines 299-309)
adapter_stop(a) ==
    /\ pc = "idle"
    /\ a \in 1..Len(adapters)
    /\ adapters' = StoppedAdapters(a)
    /\ children' = TerminatedChildren(a)
    /\ harness' = Called("stop", a, TRUE)
    /\ UNCHANGED <<engine_vars, auth_vars, file_vars, stdio_vars, life_workers,
                   adapter_of, protocol_vars>>

----------------------------------------------------------------------------
(* The handshake of an adapter's start() (mcp_client.py, MCPHttpConnection and
   MCPStdioConnection) *)

\* what _send_request returns for initialize: a message with "result", a message with
\* "error", {"status": "accepted"} (line 168), or None (timeout, HTTP status, exception
\* caught)
InitializeReplies == {"result", "error", "accepted", "none"}

\* ... and for tools/list; "empty" is a result without tools, "malformed" a result
\* whose tool descriptor has no "name"
ListReplies == {"result", "empty", "malformed", "error", "accepted", "none"}

NoHandshake ==
    [pc |-> "idle", kind |-> "", configured |-> FALSE, sent |-> <<>>,
     initialize |-> "", list |-> "", tools |-> {}, returned |-> "", registered |-> FALSE]

\* create_connection: an adapter of either kind, with or without its url / command
NewHandshake(kind, configured) ==
    [NoHandshake EXCEPT !.pc = "start", !.kind = kind, !.configured = configured]

but_handshake_vars ==
    <<engine_vars, auth_vars, file_vars, stdio_vars, life_vars, assembly>>

\* start() lines 96-99 and 264-267: no url / no command returns False; lines 273-285:
\* Popen, which raises when the command cannot be run
handshake_start(spawned) ==
    /\ pc = "idle"
    /\ handshake.pc = "start"
    /\ handshake' =
           IF ~handshake.configured \/ (handshake.kind = "stdio" /\ ~spawned)
           THEN [handshake EXCEPT !.pc = "returned", !.returned = "fail"]
           ELSE [handshake EXCEPT !.pc = "initialize"]
    /\ UNCHANGED but_handshake_vars

\* _initialize lines 198-208 and 371-381: the request is sent and its reply awaited
handshake_initialize(reply) ==
    /\ pc = "idle"
    /\ handshake.pc = "initialize"
    /\ handshake' =
           [handshake EXCEPT
               !.sent = Append(@, "initialize"),
               !.initialize = reply,
               !.pc = IF reply = "result" THEN "notify" ELSE "list"]
    /\ UNCHANGED but_handshake_vars

\* lines 210-212 and 383-384: the notification, only after a result
handshake_notify ==
    /\ pc = "idle"
    /\ handshake.pc = "notify"
    /\ handshake' =
           [handshake EXCEPT !.sent = Append(@, "notifications/initialized"),
                             !.pc = "list"]
    /\ UNCHANGED but_handshake_vars

\* start() lines 104-109 and 290-294 with _list_tools lines 214-227 and 404-417: the
\* request is sent whatever _initialize met; tool["name"] raises on a descriptor
\* without name, which start() turns into False
handshake_list(reply) ==
    /\ pc = "idle"
    /\ handshake.pc = "list"
    /\ handshake' =
           [handshake EXCEPT
               !.sent = Append(@, "tools/list"),
               !.list = reply,
               !.tools = IF reply = "result" THEN ServerTools("srv") ELSE {},
               !.pc = "returned",
               !.returned = IF reply = "malformed" THEN "fail" ELSE "ok"]
    /\ UNCHANGED but_handshake_vars

\* MCPManager.start_server lines 747-756: the adapter is recorded when start() is true
handshake_register ==
    /\ pc = "idle"
    /\ handshake.pc = "returned"
    /\ handshake' = [handshake EXCEPT !.pc = "done",
                                      !.registered = (handshake.returned = "ok")]
    /\ UNCHANGED but_handshake_vars

----------------------------------------------------------------------------
(* The tool-call fragments of a streamed completion (proxy_server.py,
   DeepSeekProxy.process_request_stream) *)

\* one element of delta.tool_calls; "" is an absent or empty field
Fragment(index, id, name, arguments) ==
    [index |-> index, id |-> id, name |-> name, arguments |-> arguments]

\* the tool-call deltas of the streams of the upstream, with finish_reason tool_calls
FragmentStreams ==
    {<<Fragment(0, "c1", "srv_t", "{"), Fragment(0, "", "", "}")>>,
     <<Fragment(0, "", "srv", ""), Fragment(0, "c2", "_t", "{}")>>,
     <<Fragment(1, "c3", "srv_t", ""), Fragment(0, "", "srv", "{}"),
       Fragment(1, "", "", "{}"), Fragment(0, "c4", "_t", "")>>,
     <<Fragment(0, "", "srv_t", "{}")>>,
     <<Fragment(0, "", "srv_t", ""), Fragment(1, "", "cli", "{}")>>,
     <<Fragment(0, "c5", "cli", "{}")>>,
     <<Fragment(0, "c6", "srv_t", "{")>>,
     <<>>}

\* variant: the id is taken from the first fragment of an index only
AddFragment_FirstId(data, tc) ==
    LET entry == IF tc.index \in DOMAIN data THEN data[tc.index]
                 ELSE ToolCall(IF tc.id # "" THEN tc.id
                               ELSE "call_" \o ToString(tc.index), "", "", 0)
    IN  SetItem(data, tc.index,
                [entry EXCEPT !.name = @ \o tc.name, !.arguments = @ \o tc.arguments])

\* lines 389-403: the entry of the index is created on its first fragment, with the id
\* of the fragment or call_<index>; an id that arrives replaces it; name and arguments
\* are appended
AddFragment(data, tc) ==
    LET entry == IF tc.index \in DOMAIN data THEN data[tc.index]
                 ELSE ToolCall(IF tc.id # "" THEN tc.id
                               ELSE "call_" \o ToString(tc.index), "", "", 0)
    IN  SetItem(data, tc.index,
                [entry EXCEPT !.id = IF tc.id # "" THEN tc.id ELSE @,
                              !.name = @ \o tc.name,
                              !.arguments = @ \o tc.arguments])

RECURSIVE SortedKeys(_)
\* sorted(tool_calls_data.keys())
SortedKeys(keys) ==
    IF keys = {} THEN <<>>
    ELSE LET least == CHOOSE k \in keys : \A other \in keys : k <= other
         IN  <<least>> \o SortedKeys(keys \ {least})

\* line 411: [tool_calls_data[i] for i in sorted(tool_calls_data.keys())]
Materialize(data) ==
    [k \in 1..Cardinality(DOMAIN data) |-> data[SortedKeys(DOMAIN data)[k]]]

\* json.loads(arguments) of line 492 returns for these texts and raises for others
ParsableArguments == {"", "{}"}

AssemblyIdle ==
    [pc |-> "idle", iteration |-> 0, stream |-> <<>>, arrived |-> <<>>,
     tool_calls_data |-> <<>>, tool_calls_list |-> <<>>, messages_copy |-> <<>>,
     raised |-> FALSE, upstream_ids |-> <<>>]

but_assembly_vars ==
    <<engine_vars, auth_vars, file_vars, stdio_vars, life_vars, handshake>>

\* lines 321-336: the next streamed completion is requested
assembly_create(fragments) ==
    /\ pc = "idle"
    /\ assembly.pc = "loop"
    /\ assembly.iteration < deepseek_max_iterations
    /\ assembly' = [assembly EXCEPT !.pc = "read", !.stream = fragments,
                                    !.arrived = <<>>, !.tool_calls_data = <<>>,
                                    !.tool_calls_list = <<>>]
    /\ UNCHANGED but_assembly_vars

\* lines 387-408: one tool-call delta arrives; upstream_ids records the ids the
\* upstream has sent in this request
assembly_fragment ==
    /\ pc = "idle"
    /\ assembly.pc = "read"
    /\ assembly.stream # <<>>
    /\ assembly' =
           [assembly EXCEPT
               !.stream = Tail(@),
               !.arrived = Append(@, Head(assembly.stream)),
               !.upstream_ids = IF Head(assembly.stream).id # ""
                                THEN Append(@, Head(assembly.stream).id) ELSE @,
               !.tool_calls_data = AddFragment(@, Head(assembly.stream))]
    /\ UNCHANGED but_assembly_vars

\* lines 411-507: the stream has ended. The list is materialised; without a call of a
\* tool of the manager the generator ends; otherwise the assistant message and one
\* tool message for every manager-owned call are appended and the loop goes on;
\* json.loads raises on the first call whose arguments are not a JSON text
assembly_end ==
    /\ pc = "idle"
    /\ assembly.pc = "read"
    /\ assembly.stream = <<>>
    /\ LET assembled == Materialize(assembly.tool_calls_data)
           owned_calls == ManagerOwned(assembled)
           results == [k \in 1..Len(owned_calls) |->
                          ChatMessage("tool", <<"R">>, <<>>, <<>>, owned_calls[k].id)]
           unparsable == {k \in 1..Len(owned_calls) :
                             owned_calls[k].arguments \notin ParsableArguments}
       IN  assembly' =
               IF owned_calls = <<>>
               THEN [assembly EXCEPT !.pc = "done", !.tool_calls_list = assembled]
               ELSE IF unparsable # {}
               THEN [assembly EXCEPT
                        !.pc = "done",
                        !.raised = TRUE,
                        !.tool_calls_list = assembled,
                        !.messages_copy =
                            Append(@, ChatMessage("assistant", <<>>, <<>>,
                                                  assembled, ""))
                            \o SubSeq(results, 1,
                                      (CHOOSE k \in unparsable :
                                          \A other \in unparsable : k <= other) - 1)]
               ELSE [assembly EXCEPT
                        !.pc = "loop",
                        !.iteration = @ + 1,
                        !.tool_calls_list = assembled,
                        !.messages_copy =
                            Append(@, ChatMessage("assistant", <<>>, <<>>,
                                                  assembled, "")) \o results]
    /\ UNCHANGED but_assembly_vars

ProtocolIdle ==
    /\ handshake = NoHandshake
    /\ assembly = AssemblyIdle

LifeIdle ==
    /\ life_workers = [w \in LifeWorkers |-> LifeWorkerIdle]
    /\ adapters = <<>>
    /\ children = <<>>
    /\ adapter_of = <<>>
    /\ harness = NotCalled

\* the components at rest, for the specifications that do not exercise them
ComponentsIdle ==
    /\ CONFIG = DefaultConfig
    /\ auth = NotChecked
    /\ FileIdle
    /\ StdioIdle
    /\ LifeIdle
    /\ ProtocolIdle

----------------------------------------------------------------------------
(* Other workers: the administrative endpoints start and stop tool servers
   while a request is being served *)

admin_start_server(name, started) ==
    /\ pc # "done"
    /\ start_server(name, started)
    /\ UNCHANGED <<request_input, component_vars,
                 request_vars, deepseek_vars, registry_vars>>

admin_stop_server(name) ==
    /\ pc # "done"
    /\ stop_server(name)
    /\ UNCHANGED <<request_input, component_vars,
                 request_vars, deepseek_vars, registry_vars>>

----------------------------------------------------------------------------
(* The manager's operations, called one after the other *)

\* an operation, the servers whose adapter it could start, and those it stopped;
\* enable_server also records the names enabled before it, and a disable_server that
\* directly follows enable_server of the same name (pair) takes that record over
Op(op, name, started, stopped) ==
    [op |-> op, name |-> name, started |-> started, stopped |-> stopped,
     before |-> {}, pair |-> FALSE]

FollowsEnable(name) == last_op.op = "enable_server" /\ last_op.name = name

\* MCPManager.__init__
Constructed == Op("__init__", "", {}, {})

Assign(m) ==
    /\ servers' = m.servers
    /\ connections' = m.connections
    /\ manager_tools' = m.tools

manager_start_server(name, started) ==
    /\ pc = "idle"
    /\ IF name \in servers /\ name \notin connections
       THEN start_server(name, started)
       ELSE UNCHANGED <<servers, connections, manager_tools>>
    /\ last_op' = Op("start_server", name, IF started THEN {name} ELSE {}, {})
    /\ UNCHANGED <<request_input, component_vars,
                 request_vars, deepseek_vars, available, enabled_file>>

manager_stop_server(name) ==
    /\ pc = "idle"
    /\ IF name \in connections
       THEN stop_server(name)
       ELSE UNCHANGED <<servers, connections, manager_tools>>
    /\ last_op' = Op("stop_server", name, {}, connections \cap {name})
    /\ UNCHANGED <<request_input, component_vars,
                 request_vars, deepseek_vars, available, enabled_file>>

manager_stop_all_servers ==
    /\ pc = "idle"
    /\ Assign(stop_all_servers(Manager(servers, connections, manager_tools), connections))
    /\ last_op' = Op("stop_all_servers", "", {}, connections)
    /\ UNCHANGED <<request_input, component_vars,
                 request_vars, deepseek_vars, available, enabled_file>>

manager_reload_config(order, started) ==
    /\ pc = "idle"
    /\ Assign(reload_config(Manager(servers, connections, manager_tools),
                            enabled_file, available, order, started))
    /\ last_op' = Op("reload_config", "", started, connections)
    /\ UNCHANGED <<request_input, component_vars,
                 request_vars, deepseek_vars, available, enabled_file>>

\* MCPManager.enable_server: the side-file, then reload_config when the directory exists
manager_enable_server(name, order, started) ==
    /\ pc = "idle"
    /\ enabled_file' = enable_server_file(enabled_file, available, name)
    /\ IF name \in available
       THEN /\ Assign(reload_config(Manager(servers, connections, manager_tools),
                                    enabled_file', available, order, started))
            /\ last_op' = [Op("enable_server", name, started, connections)
                               EXCEPT !.before = get_enabled_servers(enabled_file)]
       ELSE /\ UNCHANGED <<servers, connections, manager_tools>>
            /\ last_op' = [Op("enable_server", name, {}, {})
                               EXCEPT !.before = get_enabled_servers(enabled_file)]
    /\ UNCHANGED <<request_input, component_vars,
                 request_vars, deepseek_vars, available>>

\* MCPManager.disable_server: the side-file, then stop_server
manager_disable_server(name) ==
    /\ pc = "idle"
    /\ enabled_file' = disable_server_file(enabled_file, name)
    /\ IF name \in connections
       THEN stop_server(name)
       ELSE UNCHANGED <<servers, connections, manager_tools>>
    /\ last_op' = [Op("disable_server", name, {}, connections \cap {name})
                       EXCEPT !.before = IF FollowsEnable(name) THEN last_op.before ELSE {},
                              !.pair = FollowsEnable(name)]
    /\ UNCHANGED <<request_input, component_vars,
                 request_vars, deepseek_vars, available>>

----------------------------------------------------------------------------
(* Requests *)

\* the request bodies: a first turn without tools, and a later turn of a client that
\* declares its own tools (one of them under the name of a manager tool) and has
\* answered a tool call itself
ClientRequests ==
    {[contents |-> <<Message("user", <<TextPart(<<"hi">>)>>)>>,
      tools |-> <<>>],
     [contents |-> <<Message("user", <<TextPart(<<"hi">>)>>),
                     Message("model", <<CallPart(ClientTool, "{}", "")>>),
                     Message("user", <<ResponsePart(ClientTool, <<"client result">>)>>)>>,
      tools |-> <<Declaration(ClientTool, "client"), Declaration(ManagedTool, "client")>>]}

\* the request bodies of the OpenAI dialect
ChatRequests ==
    {[messages |-> <<ChatMessage("user", <<"hi">>, <<>>, <<>>, "")>>,
      tools |-> <<>>],
     [messages |-> <<ChatMessage("system", <<"be brief">>, <<>>, <<>>, ""),
                     ChatMessage("user", <<"hi">>, <<>>, <<>>, "")>>,
      tools |-> <<Declaration(ClientTool, "client")>>]}

NothingSent == [contents |-> <<>>, tools |-> <<>>, live |-> {}, failed |-> FALSE]

RECURSIVE StartAll(_, _)
\* MCPManager.__init__ -> start_enabled_servers, for the servers whose start succeeded
StartAll(tools_map, names) ==
    IF names = {} THEN tools_map
    ELSE LET n == CHOOSE x \in names : TRUE
         IN  StartAll(RegisterTools(tools_map, n), names \ {n})

Init ==
    /\ pc = "start"
    /\ mode \in {"buffered", "stream", "deepseek", "deepseek_stream"}
    /\ IF mode \in {"deepseek", "deepseek_stream"}
       THEN /\ contents = <<>>
            /\ \E request \in ChatRequests :
                  messages = request.messages /\ tools = request.tools
       ELSE /\ messages = <<>>
            /\ \E request \in ClientRequests :
                  contents = request.contents /\ tools = request.tools
    /\ execute_mcp_tools \in BOOLEAN
    /\ mcp_manager \in BOOLEAN
    /\ contents_copy = <<>>
    /\ original_contents_length = 0
    /\ combined_tools = <<>>
    /\ iteration = 0
    /\ retry = 0
    /\ accumulated_thought_texts = <<>>
    /\ accumulated_tool_texts = <<>>
    /\ mcp_tool_calls = <<>>
    /\ function_responses = <<>>
    /\ last_result = NoEnvelope
    /\ http_response = NoResponse
    /\ servers = ServerNames
    /\ connections \in SUBSET ServerNames
    /\ manager_tools = StartAll(<<>>, connections)
    /\ available = ServerNames
    /\ enabled_file = save_enabled_servers(ServerNames)
    /\ last_op = Constructed
    /\ attempt_log = <<>>
    /\ upstream_calls = 0
    /\ dispatched = 0
    /\ last_tool_result = None
    /\ issued = <<>>
    /\ sent = NothingSent
    /\ out = <<>>
    /\ stream_error = ""
    /\ messages_copy = <<>>
    /\ assistant_msg_index = 0
    /\ chat_response = NoChatResponse
    /\ reasoning_issued = <<>>
    /\ ComponentsIdle

\* the steps of the request worker
RequestNext ==
    \/ process_request_entry
    \/ loop_head
    \/ \E response \in UpstreamOutcomes : upstream_raises(response)
    \/ \E response \in UpstreamOutcomes : upstream_retry(response)
    \/ \E response \in UpstreamOutcomes : upstream_error(response)
    \/ \E response \in UpstreamOutcomes : upstream_reply(response)
    \/ \E outcome \in AdapterOutcomes : execute_tool(outcome)
    \/ stream_entry
    \/ stream_loop_head
    \/ \E response \in StreamOutcomes : stream_raises(response)
    \/ \E response \in StreamOutcomes : stream_status_error(response)
    \/ \E response \in StreamOutcomes : stream_reply(response)
    \/ \E response \in StreamOutcomes : stream_retry(response)
    \/ \E outcome \in AdapterOutcomes : stream_execute_tool(outcome)
    \/ deepseek_entry
    \/ \E message \in Completions : deepseek_reply(message)
    \/ deepseek_upstream_raises
    \/ deepseek_max_reached
    \/ \E outcome \in AdapterOutcomes : deepseek_execute_tool(outcome)
    \/ deepseek_stream_entry
    \/ \E message \in Completions : deepseek_stream_reply(message)
    \/ \E message \in Completions : deepseek_stream_raises(message)
    \/ deepseek_stream_max_reached
    \/ \E outcome \in AdapterOutcomes : deepseek_stream_execute_tool(outcome)

\* the steps of the other workers
AdminNext ==
    \/ \E name \in ServerNames, started \in BOOLEAN : admin_start_server(name, started)
    \/ \E name \in ServerNames : admin_stop_server(name)

Next == RequestNext \/ AdminNext

Spec == Init /\ [][Next]_vars

\* a manager that serves no request: built from the registry, then operated on
ManagerInit ==
    /\ pc = "idle"
    /\ mode = "buffered"
    /\ contents = <<>>
    /\ messages = <<>>
    /\ tools = <<>>
    /\ execute_mcp_tools = TRUE
    /\ mcp_manager = TRUE
    /\ contents_copy = <<>>
    /\ original_contents_length = 0
    /\ combined_tools = <<>>
    /\ iteration = 0
    /\ retry = 0
    /\ accumulated_thought_texts = <<>>
    /\ accumulated_tool_texts = <<>>
    /\ mcp_tool_calls = <<>>
    /\ function_responses = <<>>
    /\ last_result = NoEnvelope
    /\ http_response = NoResponse
    /\ available = Directories
    /\ enabled_file \in InitialFiles
    /\ \E order \in Orders(Directories), started \in SUBSET Directories :
          /\ servers = _load_from_directory(Manager({}, {}, <<>>), enabled_file, available,
                                           order, started).servers
          /\ connections = _load_from_directory(Manager({}, {}, <<>>), enabled_file,
                                               available, order, started).connections
          /\ manager_tools = _load_from_directory(Manager({}, {}, <<>>), enabled_file,
                                                 available, order, started).tools
    /\ last_op = Constructed
    /\ attempt_log = <<>>
    /\ upstream_calls = 0
    /\ dispatched = 0
    /\ last_tool_result = None
    /\ issued = <<>>
    /\ sent = NothingSent
    /\ out = <<>>
    /\ stream_error = ""
    /\ messages_copy = <<>>
    /\ assistant_msg_index = 0
    /\ chat_response = NoChatResponse
    /\ reasoning_issued = <<>>
    /\ ComponentsIdle

ManagerNext ==
    \/ \E name \in OperandNames, started \in BOOLEAN : manager_start_server(name, started)
    \/ \E name \in OperandNames : manager_stop_server(name)
    \/ manager_stop_all_servers
    \/ \E order \in Orders(Directories), started \in SUBSET Directories :
          manager_reload_config(order, started)
    \/ \E name \in OperandNames, order \in Orders(Directories),
          started \in SUBSET Directories : manager_enable_server(name, order, started)
    \/ \E name \in OperandNames : manager_disable_server(name)

ManagerSpec == ManagerInit /\ [][ManagerNext]_vars

\* a server that serves no request and has no tool server: every variable of the
\* engines and of the manager at its value after construction
RequestsIdle ==
    /\ pc = "idle"
    /\ mode = "buffered"
    /\ contents = <<>>
    /\ messages = <<>>
    /\ tools = <<>>
    /\ execute_mcp_tools = TRUE
    /\ mcp_manager = TRUE
    /\ contents_copy = <<>>
    /\ original_contents_length = 0
    /\ combined_tools = <<>>
    /\ iteration = 0
    /\ retry = 0
    /\ accumulated_thought_texts = <<>>
    /\ accumulated_tool_texts = <<>>
    /\ mcp_tool_calls = <<>>
    /\ function_responses = <<>>
    /\ last_result = NoEnvelope
    /\ http_response = NoResponse
    /\ last_op = Constructed
    /\ attempt_log = <<>>
    /\ upstream_calls = 0
    /\ dispatched = 0
    /\ last_tool_result = None
    /\ issued = <<>>
    /\ sent = NothingSent
    /\ out = <<>>
    /\ stream_error = ""
    /\ messages_copy = <<>>
    /\ assistant_msg_index = 0
    /\ chat_response = NoChatResponse
    /\ reasoning_issued = <<>>

EngineIdle_But_Registry ==
    /\ RequestsIdle
    /\ servers = {}
    /\ connections = {}
    /\ manager_tools = <<>>

EngineIdle ==
    /\ EngineIdle_But_Registry
    /\ available = {}
    /\ enabled_file = <<>>

\* the Gemini engines with room for one more iteration and every tool server
\* connected, so that tool results of several iterations meet in one conversation
RewriteInit ==
    /\ pc = "start"
    /\ mode \in {"buffered", "stream"}
    /\ messages = <<>>
    /\ \E request \in ClientRequests :
          contents = request.contents /\ tools = request.tools
    /\ execute_mcp_tools = TRUE
    /\ mcp_manager = TRUE
    /\ contents_copy = <<>>
    /\ original_contents_length = 0
    /\ combined_tools = <<>>
    /\ iteration = 0
    /\ retry = 0
    /\ accumulated_thought_texts = <<>>
    /\ accumulated_tool_texts = <<>>
    /\ mcp_tool_calls = <<>>
    /\ function_responses = <<>>
    /\ last_result = NoEnvelope
    /\ http_response = NoResponse
    /\ servers = ServerNames
    /\ connections = ServerNames
    /\ manager_tools = StartAll(<<>>, connections)
    /\ available = ServerNames
    /\ enabled_file = save_enabled_servers(ServerNames)
    /\ last_op = Constructed
    /\ attempt_log = <<>>
    /\ upstream_calls = 0
    /\ dispatched = 0
    /\ last_tool_result = None
    /\ issued = <<>>
    /\ sent = NothingSent
    /\ out = <<>>
    /\ stream_error = ""
    /\ messages_copy = <<>>
    /\ assistant_msg_index = 0
    /\ chat_response = NoChatResponse
    /\ reasoning_issued = <<>>
    /\ CONFIG = [DefaultConfig EXCEPT !.max_iterations = max_iterations + 1]
    /\ auth = NotChecked
    /\ FileIdle
    /\ StdioIdle
    /\ LifeIdle
    /\ ProtocolIdle

RewriteNext ==
    \/ process_request_entry
    \/ loop_head
    \/ \E response \in UpstreamOutcomes : upstream_raises(response)
    \/ \E response \in UpstreamOutcomes : upstream_retry(response)
    \/ \E response \in UpstreamOutcomes : upstream_error(response)
    \/ \E response \in UpstreamOutcomes : upstream_reply(response)
    \/ \E outcome \in AdapterOutcomes : execute_tool(outcome)
    \/ stream_entry
    \/ stream_loop_head
    \/ \E response \in StreamOutcomes : stream_raises(response)
    \/ \E response \in StreamOutcomes : stream_status_error(response)
    \/ \E response \in StreamOutcomes : stream_reply(response)
    \/ \E response \in StreamOutcomes : stream_retry(response)
    \/ \E outcome \in AdapterOutcomes : stream_execute_tool(outcome)

RewriteSpec == RewriteInit /\ [][RewriteNext]_vars

\* the four engines with replies that hold one or two manager-owned calls, alone or
\* beside a client-owned one, while other workers start and stop the tool server
ReplyTwoCalls ==
    Envelope(<<Candidate(<<CallPart(ManagedTool, "{}", "sigA"),
                           CallPart(ManagedTool, "{x}", "")>>, "STOP", {"index"})>>,
             {"usageMetadata"})

CompletionTwoCalls ==
    Completion(<<"R4">>, <<>>, <<ToolCall("c4", ManagedTool, "{}", 0),
                                 ToolCall("c5", ManagedTool, "{x}", 1)>>, "tool_calls")

CompletionMixed ==
    Completion(<<>>, <<>>, <<ToolCall("c6", ClientTool, "{}", 0),
                             ToolCall("c7", ManagedTool, "{}", 1)>>, "tool_calls")

DispatchReplies ==
    {HttpResponse(200, TRUE, "", e) :
        e \in {ReplyFinal, ReplyManagerCall, ReplyMixed, ReplyTwoCalls}}

DispatchStreams ==
    {StreamResponse(chunks) :
        chunks \in {<<DataChunk(ChunkThought), DataChunk(ChunkManagerCall)>>,
                    <<DataChunk(ChunkText)>>,
                    <<DataChunk(ChunkMixed)>>,
                    <<DataChunk(ReplyTwoCalls)>>}}

DispatchCompletions ==
    {CompletionFinal, CompletionManagerCall, CompletionTwoCalls, CompletionMixed}

DispatchNext ==
    \/ process_request_entry
    \/ loop_head
    \/ \E response \in DispatchReplies : upstream_reply(response)
    \/ \E outcome \in AdapterOutcomes : execute_tool(outcome)
    \/ stream_entry
    \/ stream_loop_head
    \/ \E response \in DispatchStreams : stream_reply(response)
    \/ \E outcome \in AdapterOutcomes : stream_execute_tool(outcome)
    \/ deepseek_entry
    \/ \E message \in DispatchCompletions : deepseek_reply(message)
    \/ \E outcome \in AdapterOutcomes : deepseek_execute_tool(outcome)
    \/ deepseek_stream_entry
    \/ \E message \in DispatchCompletions : deepseek_stream_reply(message)
    \/ \E outcome \in AdapterOutcomes : deepseek_stream_execute_tool(outcome)
    \/ \E name \in ServerNames, started \in BOOLEAN : admin_start_server(name, started)
    \/ \E name \in ServerNames : admin_stop_server(name)

DispatchSpec == Init /\ [][DispatchNext]_vars

\* two workers that each run enable_server or disable_server once, and a reader
FileInit ==
    /\ EngineIdle_But_Registry
    /\ available = Directories
    /\ enabled_file \in InitialFiles
    /\ CONFIG = DefaultConfig
    /\ auth = NotChecked
    /\ file_workers = [w \in FileWorkers |-> FileWorkerIdle]
    /\ file_log = FileLog(enabled_file, {}, enabled_file)
    /\ StdioIdle
    /\ LifeIdle
    /\ ProtocolIdle

FileNext ==
    \/ \E w \in FileWorkers, op \in {"enable_server", "disable_server"},
          name \in OperandNames : file_call(w, op, name)
    \/ \E w \in FileWorkers : file_read(w)
    \/ \E w \in FileWorkers : file_open(w)
    \/ \E w \in FileWorkers : file_write(w)
    \/ file_observe

FileSpec == FileInit /\ [][FileNext]_vars

\* two workers that each call a tool of the same stdio adapter once, and its child
StdioInit ==
    /\ EngineIdle
    /\ CONFIG = DefaultConfig
    /\ auth = NotChecked
    /\ FileIdle
    /\ StdioIdle
    /\ LifeIdle
    /\ ProtocolIdle

StdioNext ==
    \/ \E c \in Callers : send_request_call(c)
    \/ \E c \in Callers : send_request_load(c)
    \/ \E c \in Callers : send_request_store(c)
    \/ \E c \in Callers : send_request_read(c)
    \/ \E c \in Callers : send_request_register(c)
    \/ \E c \in Callers : send_request_write(c)
    \/ \E c \in Callers : send_request_write_raises(c)
    \/ \E c \in Callers : send_request_get(c)
    \/ \E c \in Callers : send_request_timeout(c)
    \/ \E c \in Callers : send_request_del(c)
    \/ \E request \in Requests : handle_message(request)

StdioSpec == StdioInit /\ [][StdioNext]_vars

\* the manager with the record of server a loaded and nothing started, and two workers
\* that each make lifecycle calls
LifeInit ==
    /\ RequestsIdle
    /\ available = Directories
    /\ enabled_file = <<"a", "a_b">>
    /\ servers = EnabledOnDisk(enabled_file, available)
    /\ connections = {}
    /\ manager_tools = <<>>
    /\ CONFIG = DefaultConfig
    /\ auth = NotChecked
    /\ FileIdle
    /\ StdioIdle
    /\ LifeIdle
    /\ ProtocolIdle

LifeNext ==
    \/ \E w \in LifeWorkers, op \in {"start_server", "stop_server", "reload_config"},
          name \in LifeNames : life_call(w, op, name)
    \/ \E w \in LifeWorkers : life_start_check(w)
    \/ \E w \in LifeWorkers, outcome \in StartOutcomes : life_adapter_start(w, outcome)
    \/ \E w \in LifeWorkers : life_register(w)
    \/ \E w \in LifeWorkers : life_stop_check(w)
    \/ \E w \in LifeWorkers : life_adapter_stop(w)
    \/ \E w \in LifeWorkers : life_filter(w)
    \/ \E w \in LifeWorkers : life_remove(w)
    \/ \E w \in LifeWorkers : life_stop_all(w)
    \/ \E w \in LifeWorkers : life_clear(w)
    \/ \E w \in LifeWorkers : life_load(w)
    \/ \E w \in LifeWorkers : life_start_all(w)

LifeSpec == LifeInit /\ [][LifeNext]_vars

\* one adapter on which start() and stop() are called in any order, and a manager whose
\* servers are started and stopped
AdapterInit ==
    /\ RequestsIdle
    /\ available = Directories
    /\ enabled_file = <<"a", "a_b">>
    /\ servers = EnabledOnDisk(enabled_file, available)
    /\ connections = {}
    /\ manager_tools = <<>>
    /\ CONFIG = DefaultConfig
    /\ auth = NotChecked
    /\ FileIdle
    /\ StdioIdle
    /\ life_workers = [w \in LifeWorkers |-> LifeWorkerIdle]
    /\ adapters = <<NewAdapter("a")>>
    /\ children = <<>>
    /\ adapter_of = <<>>
    /\ harness = NotCalled
    /\ ProtocolIdle

AdapterNext ==
    \/ \E outcome \in StartOutcomes : adapter_start(1, outcome)
    \/ adapter_stop(1)
    \/ \E name \in OperandNames, started \in BOOLEAN : manager_start_server(name, started)
    \/ \E name \in OperandNames : manager_stop_server(name)

AdapterSpec == AdapterInit /\ [][AdapterNext]_vars

\* start_server of the manager on one new adapter, for every kind, configuration and
\* behaviour of the server
HandshakeInit ==
    /\ EngineIdle
    /\ CONFIG = DefaultConfig
    /\ auth = NotChecked
    /\ FileIdle
    /\ StdioIdle
    /\ LifeIdle
    /\ \E kind \in {"stdio", "http"}, configured \in BOOLEAN :
           handshake = NewHandshake(kind, configured)
    /\ assembly = AssemblyIdle

HandshakeNext ==
    \/ \E spawned \in BOOLEAN : handshake_start(spawned)
    \/ \E reply \in InitializeReplies : handshake_initialize(reply)
    \/ handshake_notify
    \/ \E reply \in ListReplies : handshake_list(reply)
    \/ handshake_register

HandshakeSpec == HandshakeInit /\ [][HandshakeNext]_vars

\* a reply with two candidates, the first of which calls the manager's tool
ReplyTwoCandidates ==
    Envelope(<<Candidate(<<ThoughtPart(<<"A">>, "sigA"), CallPart(ManagedTool, "{}", "sigC")>>,
                         "STOP", {"index"}),
               Candidate(<<TextPart(<<"alt">>)>>, "STOP", {"index"})>>,
             {"usageMetadata"})

PartsReplies ==
    {HttpResponse(200, TRUE, "", e) :
        e \in {ReplyFinal, ReplyManagerCall, ReplyTwoCandidates}}

PartsStreams ==
    {StreamResponse(chunks) :
        chunks \in {<<DataChunk(ChunkThought), DataChunk(ChunkManagerCall)>>,
                    <<DataChunk(ChunkText)>>,
                    <<DataChunk(ReplyTwoCandidates)>>}}

\* the Gemini engines on replies whose parts carry signatures
PartsNext ==
    \/ process_request_entry
    \/ loop_head
    \/ \E response \in PartsReplies : upstream_reply(response)
    \/ \E outcome \in AdapterOutcomes : execute_tool(outcome)
    \/ stream_entry
    \/ stream_loop_head
    \/ \E response \in PartsStreams : stream_reply(response)
    \/ \E outcome \in AdapterOutcomes : stream_execute_tool(outcome)
    \/ \E name \in ServerNames, started \in BOOLEAN : admin_start_server(name, started)
    \/ \E name \in ServerNames : admin_stop_server(name)

PartsSpec == Init /\ [][PartsNext]_vars

\* the streaming engine of the OpenAI dialect with the manager's tool registered, on
\* streams of tool-call fragments
AssemblyInit ==
    /\ RequestsIdle
    /\ available = {}
    /\ enabled_file = <<>>
    /\ servers = ServerNames
    /\ connections = ServerNames
    /\ manager_tools = StartAll(<<>>, ServerNames)
    /\ CONFIG = DefaultConfig
    /\ auth = NotChecked
    /\ FileIdle
    /\ StdioIdle
    /\ LifeIdle
    /\ handshake = NoHandshake
    /\ assembly = [AssemblyIdle EXCEPT !.pc = "loop"]

AssemblyNext ==
    \/ \E fragments \in FragmentStreams : assembly_create(fragments)
    \/ assembly_fragment
    \/ assembly_end

AssemblySpec == AssemblyInit /\ [][AssemblyNext]_vars

\* the access control of both surfaces, for every configuration and request
AuthInit ==
    /\ EngineIdle
    /\ CONFIG \in Configs
    /\ auth = NotChecked
    /\ FileIdle
    /\ StdioIdle
    /\ LifeIdle
    /\ ProtocolIdle

AuthNext ==
    \/ \E headers \in Headers : generate_content_auth(headers)
    \/ \E headers \in Headers : chat_completions_auth(headers)

AuthSpec == AuthInit /\ [][AuthNext]_vars

----------------------------------------------------------------------------
(* Properties *)

Non2xx(response) ==
    /\ response.kind = "response"
    /\ (response.status_code < 200 \/ response.status_code > 299)

AllNon2xx(log) == \A i \in 1..Len(log) : Non2xx(log[i])

\* process_request ended because the upstream answered with an error status
UpstreamFailed ==
    /\ mode = "buffered"
    /\ pc = "done"
    /\ attempt_log # <<>>
    /\ Last(attempt_log).kind = "response"

FirstParts(result) ==
    IF result.candidates = <<>> THEN <<>> ELSE result.candidates[1].parts

HasCallTo(result, name) ==
    \E i \in 1..Len(FirstParts(result)) :
        /\ FirstParts(result)[i].kind = "functionCall"
        /\ FirstParts(result)[i].name = name

\* the request ended by returning a reply built from last_result
AnsweredFromReply ==
    /\ pc = "done"
    /\ http_response.status_code = 200
    /\ iteration < max_iterations

GeminiMode == mode \in {"buffered", "stream"}

\* position of the worker inside one iteration, later positions ranked lower
PhaseRank(p) ==
    CASE p = "start"    -> 5
      [] p = "loop"     -> 4
      [] p = "upstream" -> 3
      [] p = "s_retry"  -> 2
      [] p = "dispatch" -> 1
      [] OTHER          -> 0

\* the step moves the worker down the well-founded order
\* (iterations left, position, retries left, calls left)
Decreases ==
    \/ iteration' > iteration
    \/ iteration' = iteration /\ PhaseRank(pc') < PhaseRank(pc)
    \/ iteration' = iteration /\ pc' = pc /\ retry' > retry
    \/ /\ iteration' = iteration /\ pc' = pc /\ retry' = retry
       /\ Len(mcp_tool_calls') < Len(mcp_tool_calls)

(* C1: process_request and process_request_stream terminate when every upstream
   request and every tool call returns: every step of the worker moves it down a
   well-founded order bounded by max_iterations and api_retry_count, the worker is
   never blocked before it is done, the loop runs at most max_iterations
   iterations, and a request that executed tool calls in each of max_iterations
   iterations ends with the synthetic 'max iterations' reply (in streaming mode
   that envelope followed by [DONE]). *)
C1_Terminates ==
    /\ [](GeminiMode => iteration <= max_iterations /\ retry <= api_retry_count)
    /\ [][(GeminiMode /\ request_vars' # request_vars) => Decreases]_vars
    /\ []((GeminiMode /\ pc # "done") => ENABLED RequestNext)
    /\ []((GeminiMode /\ pc = "done" /\ iteration = max_iterations) =>
            /\ dispatched >= max_iterations
            /\ upstream_calls >= max_iterations
            /\ IF mode = "buffered"
               THEN http_response = OkResponse(MaxIterationsReply)
               ELSE /\ Len(out) >= 2
                    /\ out[Len(out) - 1] = DataChunk(MaxIterationsReply)
                    /\ Last(out) = DoneFrame)

\* a request ended at the cap after executing tool calls in every iteration
C1_Witness ==
    /\ mode = "stream"
    /\ pc = "done"
    /\ iteration = max_iterations
    /\ dispatched >= max_iterations

(* C2: on an iteration i >= 1 whose attempts all get a non-2xx status the engine
   makes exactly api_retry_count + 1 upstream attempts, no attempt follows a 200
   response, and on iteration 0 exactly one attempt is made whatever the status. *)
C2_RetryAttempts ==
    /\ Len(attempt_log) <= api_retry_count + 1
    /\ \A i \in 1..(Len(attempt_log) - 1) :
          attempt_log[i].kind = "response" /\ attempt_log[i].status_code # 200
    /\ iteration = 0 => upstream_calls <= 1
    /\ (iteration = 0 /\ pc \in {"dispatch", "done"}) => upstream_calls = 1
    /\ (pc = "done" /\ attempt_log # <<>> /\ AllNon2xx(attempt_log) /\ iteration >= 1)
          => Len(attempt_log) = api_retry_count + 1

\* an iteration >= 1 failed on every one of its api_retry_count + 1 attempts
C2_Witness ==
    /\ UpstreamFailed
    /\ iteration >= 1
    /\ AllNon2xx(attempt_log)
    /\ Len(attempt_log) = api_retry_count + 1

(* C3 as stated: after non-2xx answers the engine returns the status code and the
   error body of the last upstream attempt verbatim. *)
C3_Original ==
    (UpstreamFailed /\ AllNon2xx(attempt_log)) =>
        /\ http_response.status_code = Last(attempt_log).status_code
        /\ http_response.error_body = Last(attempt_log).text

(* C3 amended: after non-2xx answers the engine returns the status code of the last
   upstream attempt and its body, verbatim when the body is a JSON document and
   wrapped as the message of an error envelope when it is not; after that failure
   it dispatches no tool call and makes no further upstream call. *)
C3_ErrorReturned ==
    /\ [](UpstreamFailed /\ AllNon2xx(attempt_log) =>
            /\ http_response.status_code = Last(attempt_log).status_code
            /\ Last(attempt_log).is_json =>
                  http_response.error_body = Last(attempt_log).text
            /\ ~Last(attempt_log).is_json =>
                  http_response.error_body =
                      "{error:{message:" \o Last(attempt_log).text \o "}}")
    /\ [](UpstreamFailed => ~ENABLED RequestNext)

\* an iteration >= 1, reached through a tool call, failed with a body that is not JSON
C3_Witness ==
    /\ UpstreamFailed
    /\ AllNon2xx(attempt_log)
    /\ iteration >= 1
    /\ dispatched >= 1
    /\ ~Last(attempt_log).is_json
    /\ attempt_log[1].is_json

NonReasoning(parts) == SelectParts(parts, PartKinds \ {"thought"})

\* returned is received, up to its reasoning parts
SameExceptReasoning(returned, received) ==
    /\ returned.fields = received.fields
    /\ Len(returned.candidates) = Len(received.candidates)
    /\ \A i \in 1..Len(received.candidates) :
          /\ NonReasoning(returned.candidates[i].parts)
                = NonReasoning(received.candidates[i].parts)
          /\ returned.candidates[i].finishReason = received.candidates[i].finishReason
          /\ returned.candidates[i].fields = received.candidates[i].fields

(* C4: when the reply of iteration 0 holds no tool call the engine has made exactly
   one upstream call and returns that reply unmodified except for reasoning
   aggregation: every non-reasoning part, every candidate and every other field. *)
C4_Claim ==
    (AnsweredFromReply /\ iteration = 0
        /\ _get_function_calls(FirstParts(last_result)) = <<>>) =>
        /\ upstream_calls = 1
        /\ SameExceptReasoning(http_response.result, last_result)

\* the reasoning-tagged text of a reply
ReasoningText(result) == Join(<<>>, ThoughtTexts(FirstParts(result)))

(* C5: the reasoning text of the final reply of the buffered engine contains every
   (non-blank) reasoning fragment and every tool-call placeholder of the request,
   in issue order across both kinds. *)
C5_Claim ==
    (AnsweredFromReply /\ mode = "buffered") =>
        ContainsInOrder(ReasoningText(http_response.result),
                        SelectSeq(issued, LAMBDA t : ~IsBlank(t)), 1)

(* C7: a reply holding a client-owned tool call makes the buffered engine return in
   that iteration, and the returned message holds those calls and the accumulated
   reasoning. *)
C7_Claim ==
    (mode = "buffered" /\ HasCallTo(last_result, ClientTool)) =>
        /\ AnsweredFromReply
        /\ HasCallTo(http_response.result, ClientTool)
        /\ ContainsInOrder(ReasoningText(http_response.result),
                           accumulated_thought_texts, 1)

ToolNames == {ManagedTool, ClientTool}

\* the step is the dispatch, by a Gemini engine, of the call at the head of
\* mcp_tool_calls
DispatchStep == GeminiMode /\ pc = "dispatch" /\ dispatched' = dispatched + 1

\* the step is the processing of an upstream reply that starts a dispatch
ClassifyStep ==
    pc = "upstream" /\ upstream_calls' = upstream_calls + 1 /\ pc' = "dispatch"

(* C8 as stated: a reply that calls a name not registered in the manager does not
   end the request; the call gets a 'tool does not exist' tool-result and the loop
   goes on. *)
C8_Original ==
    \A name \in ToolNames :
        ~(/\ AnsweredFromReply
          /\ execute_mcp_tools /\ mcp_manager
          /\ HasCallTo(last_result, name)
          /\ name \notin sent.live)

(* C8 amended: only calls whose name is registered when the reply is classified are
   dispatched (a call to any other name is client-owned and ends the request);
   when the name of a dispatched call is no longer registered at dispatch time its
   tool-result slot receives the 'tool does not exist' text, no error is surfaced
   and the loop goes on: to the next call of the reply or to the loop test. *)
C8_ToolNotExist ==
    /\ [][ClassifyStep =>
            \A i \in 1..Len(mcp_tool_calls') :
                mcp_tool_calls'[i].name \in DOMAIN manager_tools]_vars
    /\ [][(DispatchStep /\ mcp_manager
              /\ Head(mcp_tool_calls).name \notin DOMAIN manager_tools) =>
            /\ function_responses' =
                   Append(function_responses,
                          ResponsePart(Head(mcp_tool_calls).name,
                                       ToolNotExist(Head(mcp_tool_calls).name)))
            /\ pc' \in {"dispatch", "loop"}
            /\ pc' = "loop" =>
                   /\ iteration' = iteration + 1
                   /\ Last(contents_copy') = Message("user", function_responses')
            /\ http_response' = http_response]_vars

\* a 'tool does not exist' tool-result was sent to the upstream in a further call
C8_Witness ==
    /\ upstream_calls >= 2
    /\ sent.contents # <<>>
    /\ Last(sent.contents).role = "user"
    /\ \E i \in 1..Len(Last(sent.contents).parts) :
          /\ Last(sent.contents).parts[i].kind = "functionResponse"
          /\ Last(sent.contents).parts[i].text = ToolNotExist(ManagedTool)

(* C9: a failing manager-owned tool call is never propagated to the client (no
   error response results from a dispatch), its tool-result slot receives the
   'tool execution failed' text when the adapter delivers no result, and a tool
   that returns a text has exactly that text in its tool-result. *)
C9_Claim ==
    /\ last_tool_result = Raised => ~(pc = "done" /\ http_response.status_code = 500)
    /\ (dispatched > 0 /\ function_responses # <<>> /\ last_tool_result = None) =>
          Last(function_responses).text = ToolExecFailed
    /\ (dispatched > 0 /\ function_responses # <<>> /\ last_tool_result.some) =>
          Last(function_responses).text = last_tool_result.text

Names(decls) == {decls[i].name : i \in 1..Len(decls)}

NoDuplicateNames(decls) ==
    \A i, j \in 1..Len(decls) : i # j => decls[i].name # decls[j].name

(* C10: the tool list of every upstream call is the client's declarations united
   with the manager tools live at the time of the call, without a duplicate name;
   on a collision only the client's declaration is sent and a call to that name
   is client-owned (never dispatched to the manager). *)
C10_Claim ==
    /\ upstream_calls > 0 =>
          /\ Names(sent.tools) = Names(tools) \cup sent.live
          /\ NoDuplicateNames(sent.tools)
          /\ \A i \in 1..Len(sent.tools) :
                sent.tools[i].name \in Names(tools) => sent.tools[i].origin = "client"
    /\ \A i \in 1..Len(mcp_tool_calls) : mcp_tool_calls[i].name \notin Names(tools)

(* C6: the reasoning_content of the final reply of DeepSeekProxy.process_request,
   after one or more tool-call iterations, contains the reasoning text of every
   iteration and the flattened record of the tool calls of every iteration that
   executed tool calls, in issue order, also when a later iteration returns no
   reasoning text. *)
C6_Claim ==
    (/\ mode = "deepseek"
     /\ pc = "done"
     /\ chat_response.status_code = 200
     /\ iteration >= 1
     /\ iteration < deepseek_max_iterations) =>
        ContainsInOrder(Join(<<>>, <<chat_response.reasoning_content>>),
                        reasoning_issued, 1)


----------------------------------------------------------------------------
(* Properties of the manager *)

(* C11: after any sequence of start_server, stop_server, stop_all_servers,
   reload_config, enable_server and disable_server, every entry of the tools map is
   owned by a server that is connected; and after stop_server(name) the server name
   is not connected and owns no entry *)
C11_OwnersLive ==
    /\ \A key \in DOMAIN manager_tools : manager_tools[key] \in connections
    /\ last_op.op = "stop_server" =>
          /\ last_op.name \notin connections
          /\ \A key \in DOMAIN manager_tools : manager_tools[key] # last_op.name

\* a connected server was stopped while another one stays connected with its tools
C11_Witness ==
    /\ last_op.op = "stop_server"
    /\ last_op.stopped = {last_op.name}
    /\ \E key \in DOMAIN manager_tools : manager_tools[key] \in connections

(* C12: for every tool that start_server registered under the key
   "<server>_<local name>", call_tool(key, args) calls the adapter of that server
   with exactly the local name the server listed, and with args unchanged *)
C12_Claim ==
    \A server \in connections : \A local \in ServerTools(server) :
        /\ QualifiedName(server, local) \in DOMAIN manager_tools
        /\ adapter_call(QualifiedName(server, local), "{q:1}") =
              [server |-> server, name |-> local, arguments |-> "{q:1}"]

\* the pair enable_server(name), disable_server(name) has just run
PairDone == last_op.op = "disable_server" /\ last_op.pair

(* C19, as stated: for every name and every prior content of the side-file,
   enable_server(name) followed by disable_server(name) leaves the set of enabled
   names equal to what it was before the two calls *)
C19_Original == PairDone => get_enabled_servers(enabled_file) = last_op.before

(* C19, amended: enable_server(name) followed by disable_server(name) leaves the set of
   enabled names equal to the prior set without name, which is the prior set exactly
   when name was not enabled before the two calls *)
C19_RoundTrip ==
    PairDone => get_enabled_servers(enabled_file) = last_op.before \ {last_op.name}

\* the pair ran for a server directory that was not enabled, beside an enabled name
C19_Witness ==
    /\ PairDone
    /\ last_op.name \in available
    /\ last_op.name \notin last_op.before
    /\ last_op.before # {}

\* reload_config has just run, by itself or inside enable_server
Reloaded ==
    \/ last_op.op = "reload_config"
    \/ last_op.op = "enable_server" /\ last_op.name \in available

(* C20: after reload_config the manager is a function of the registry on disk: servers
   is exactly the set of servers enabled on disk, connections holds exactly those of
   them whose start succeeded, tools holds exactly the tools of the connected servers,
   and no server record, connection or tool from before the reload is left *)
C20_ReloadFromDisk ==
    Reloaded =>
        /\ servers = EnabledOnDisk(enabled_file, available)
        /\ connections = servers \cap last_op.started
        /\ DOMAIN manager_tools = UNION {RegisteredBy(name) : name \in connections}
        /\ \A key \in DOMAIN manager_tools :
              /\ manager_tools[key] \in connections
              /\ key \in RegisteredBy(manager_tools[key])

\* a reload stopped a connected server that is no longer enabled on disk, and started
\* another one
C20_Witness ==
    /\ last_op.op = "reload_config"
    /\ last_op.stopped \ servers # {}
    /\ connections # {}

----------------------------------------------------------------------------
(* Properties of the streaming engine *)

\* a retry of the in-stream retry loop succeeds: the response is a 200 whose first
\* envelope is not an error
RetrySucceeds(response) ==
    /\ pc = "s_retry"
    /\ response.kind = "response"
    /\ ~FirstLineFails(response)
    /\ stream_retry(response)

\* what the engine does with a stream on which no error came first
StreamedNormally(chunks) == StreamEnd(ConsumeStream(chunks, StreamStart(""), TRUE))

(* C14: when an in-stream error on an iteration > 0 arrives before anything was
   forwarded and a retry succeeds, the error envelope of the failed attempt is not
   sent, the envelopes of the retried attempt are forwarded, and the request goes on
   (final answer or tool iteration) as if no error had occurred *)
C14_Claim ==
    [][\A response \in StreamOutcomes :
          RetrySucceeds(response) =>
              /\ out' = out \o StreamedNormally(response.chunks).frames
              /\ pc' = StreamedNormally(response.chunks).pc]_vars

\* the first error envelope of a stream is its k-th envelope
FirstErrorAt(chunks, k) ==
    /\ k \in 1..Len(chunks)
    /\ chunks[k].kind = "error"
    /\ \A j \in 1..(k - 1) : chunks[j].kind # "error"

\* a 200 response is read, at the head of an iteration or in the in-stream retry loop
StreamRead(response) ==
    /\ response.kind = "response"
    /\ response.status_code = 200
    /\ stream_reply(response) \/ stream_retry(response)

(* C15: an error envelope that arrives after an envelope of the same upstream call was
   received as content, or on iteration 0, is not retried: it is passed through to the
   client, followed by [DONE], and no further upstream request is made *)
C15_NoRetryAfterContent ==
    [][\A chunks \in StreamBodies : \A k \in DOMAIN chunks :
          (/\ StreamRead(StreamResponse(chunks))
           /\ FirstErrorAt(chunks, k)
           /\ k > 1 \/ (pc = "upstream" /\ iteration = 0)) =>
              /\ pc' = "done"
              /\ Len(out') >= Len(out) + 2
              /\ SubSeq(out', 1, Len(out)) = out
              /\ out'[Len(out') - 1] = chunks[k]
              /\ Last(out') = DoneFrame]_vars

\* on a tool iteration a content envelope was forwarded, then the error envelope of the
\* same stream and [DONE], with one upstream request per iteration
C15_Witness ==
    /\ mode = "stream"
    /\ pc = "done"
    /\ iteration > 0
    /\ upstream_calls = iteration + 1
    /\ Len(out) >= 3
    /\ SubSeq(out, Len(out) - 2, Len(out)) =
          <<DataChunk(ChunkText), ErrorChunk(StreamErrorBody), DoneFrame>>

\* an envelope that carries neither a tool call nor an error
Forwardable(chunk) ==
    /\ chunk.kind = "data"
    /\ _get_function_calls(AllParts(chunk.envelope.candidates)) = <<>>

\* the envelopes of a stream that arrive before its first error envelope
BeforeError(chunks) ==
    IF \E k \in DOMAIN chunks : FirstErrorAt(chunks, k)
    THEN SubSeq(chunks, 1, (CHOOSE k \in DOMAIN chunks : FirstErrorAt(chunks, k)) - 1)
    ELSE chunks

(* C16: within one upstream stream the envelopes sent to the client are in arrival
   order, and every envelope that carries neither a tool call nor an error is
   forwarded, also when it arrives after an envelope that carries a tool call *)
C16_Claim ==
    [][\A chunks \in StreamBodies :
          stream_reply(StreamResponse(chunks)) =>
              LET forwarded == SelectSeq(BeforeError(chunks), Forwardable)
              IN  /\ Len(out') >= Len(out) + Len(forwarded)
                  /\ SubSeq(out', Len(out) + 1, Len(out) + Len(forwarded)) = forwarded]_vars

\* the tool calls collected from a stream
StreamCalls(chunks) == ConsumeStream(chunks, StreamStart(""), TRUE).function_calls_parts

\* the frame is a reasoning envelope whose text is the placeholders of the tool calls
\* of some stream
IsPlaceholder(frame) ==
    /\ frame.kind = "data"
    /\ \E chunks \in StreamBodies :
          /\ StreamCalls(chunks) # <<>>
          /\ AllParts(frame.envelope.candidates) =
                <<ThoughtPart(Join(<<"\n">>, Placeholders(StreamCalls(chunks))), "")>>

\* the frame is an upstream envelope with a text part that is no reasoning
IsContent(frame) ==
    /\ frame.kind = "data"
    /\ ~IsPlaceholder(frame)
    /\ \E i \in 1..Len(AllParts(frame.envelope.candidates)) :
          AllParts(frame.envelope.candidates)[i].kind = "text"

\* every tool call the loop dispatched so far came in a reply whose calls are all to
\* the manager's tool
OnlyManagedCalls ==
    \A i \in (original_contents_length + 1)..Len(contents_copy) :
        contents_copy[i].role = "model" =>
            \A k \in 1..Len(contents_copy[i].parts) :
                contents_copy[i].parts[k].kind = "functionCall" =>
                    contents_copy[i].parts[k].name = ManagedTool

\* the request ended with a reply that carries no tool call
FinalNoCall ==
    IF mode = "buffered"
    THEN /\ http_response.status_code = 200
         /\ _get_function_calls(FirstParts(http_response.result)) = <<>>
    ELSE /\ out # <<>>
         /\ Last(out) = DoneFrame
         /\ Len(out) >= 2 => ~IsPlaceholder(out[Len(out) - 1])

\* a request without upstream failure: iteration replies with manager-owned calls only,
\* then a reply without tool call
ToolRunCompleted ==
    /\ GeminiMode
    /\ pc = "done"
    /\ upstream_calls > 0
    /\ ~sent.failed
    /\ last_tool_result # Raised
    /\ iteration < max_iterations
    /\ OnlyManagedCalls
    /\ FinalNoCall

(* C17: with no upstream failure, a request whose first n replies (n < max_iterations)
   each contain only manager-owned tool calls and whose reply n + 1 contains no tool
   call makes exactly n + 1 upstream calls, buffered and streaming; the stream holds
   one placeholder reasoning envelope per tool iteration, each before the content
   envelopes of the final reply, and [DONE] once, at the end *)
C17_CallsAndPlaceholders ==
    ToolRunCompleted =>
        /\ upstream_calls = iteration + 1
        /\ mode = "stream" =>
              /\ Cardinality({i \in DOMAIN out : IsPlaceholder(out[i])}) = iteration
              /\ \A i, j \in DOMAIN out :
                    (IsPlaceholder(out[i]) /\ IsContent(out[j])) => i < j
              /\ \A i \in DOMAIN out : out[i] = DoneFrame <=> i = Len(out)

\* a streamed request with a tool iteration, a final text reply and no failure
C17_Witness ==
    /\ ToolRunCompleted
    /\ mode = "stream"
    /\ iteration >= 1
    /\ \E j \in DOMAIN out : IsContent(out[j])

\* an upstream request of the worker raises
UpstreamRaises(response) ==
    \/ upstream_raises(response)
    \/ stream_raises(response)
    \/ stream_retry(response)

(* C18: an upstream timeout on any upstream request (first attempt or retry, buffered
   or streaming, status retry or in-stream-error retry) gives the client a 504-shaped
   error envelope, any other network error a 503-shaped one, and the loop stops *)
C18_Claim ==
    [][\A response \in {RaisedTimeout, RaisedRequestException} :
          UpstreamRaises(response) =>
              LET code == IF response.kind = "timeout" THEN 504 ELSE 503
                  body == IF response.kind = "timeout" THEN TimeoutBody
                          ELSE UnavailableBody
              IN  /\ pc' = "done"
                  /\ IF mode = "buffered"
                     THEN http_response' = ErrorResponse(code, body)
                     ELSE out' = out \o <<ErrorChunk(body), DoneFrame>>]_vars

StreamMode == mode \in {"stream", "deepseek_stream"}

(* C13: on every execution path of the streaming engines (final answer, client-owned
   tool calls, upstream non-2xx, timeout, network error, in-stream error, retries
   exhausted, iteration cap, exception caught by the route wrapper) the client stream
   holds the frame [DONE] exactly once, as its last frame: no [DONE] is sent before the
   generator ends, the generator is never blocked before it ends, and when it has
   ended the last frame, and no other, is [DONE] *)
C13_DoneOnceLast ==
    StreamMode =>
        IF pc = "done"
        THEN /\ out # <<>>
             /\ \A i \in DOMAIN out : out[i] = DoneFrame <=> i = Len(out)
        ELSE /\ \A i \in DOMAIN out : out[i] # DoneFrame
             /\ ENABLED RequestNext

\* the adapter raised during a tool call after frames were sent: the route wrapper
\* sent its error frame and [DONE]
C13_Witness ==
    /\ mode = "stream"
    /\ pc = "done"
    /\ last_tool_result = Raised
    /\ Len(out) >= 3
    /\ SubSeq(out, Len(out) - 1, Len(out)) = <<ErrorChunk(ServerErrorBody), DoneFrame>>

----------------------------------------------------------------------------
(* Properties of access control *)

Accepted == auth.route # "" /\ auth.status_code = 0

Rejected == auth.route # "" /\ auth.status_code = 401

PresentsListed ==
    /\ auth.presented # <<>>
    /\ InList(auth.presented[1], CONFIG.access_keys)

(* C21, as stated: with an access-key list configured only requests presenting a key of
   the list are accepted, the upstream is then contacted with the configured server key,
   and a request presenting any other key is rejected; with no list configured the key
   the user provided is forwarded. *)
C21_Original ==
    auth.route # "" =>
        IF CONFIG.access_keys # <<>>
        THEN /\ Accepted => PresentsListed /\ auth.upstream_key = <<CONFIG.api_key>>
             /\ ~PresentsListed => Rejected
        ELSE auth.presented # <<>> => Accepted /\ auth.upstream_key = auth.presented

(* C21, amended: with a list configured, a request presenting a key of the list is
   accepted exactly when a server key is configured and the upstream is then contacted
   with the server key; a request presenting another key is rejected when
   allow_user_api_key is off and accepted with its own key forwarded when it is on.
   With no list configured every request that presents a key is accepted, and its own
   key is forwarded when allow_user_api_key is on and the key is not empty or when no
   server key is configured; otherwise the server key is used.  A request of the
   chat surface without a bearer token is rejected. *)
C21_AccessControl ==
    auth.route # "" =>
        IF auth.presented = <<>>
        THEN Rejected
        ELSE LET key == auth.presented[1]
             IN  IF CONFIG.access_keys # <<>>
                 THEN IF PresentsListed
                      THEN IF CONFIG.api_key # ""
                           THEN Accepted /\ auth.upstream_key = <<CONFIG.api_key>>
                           ELSE Rejected
                      ELSE IF CONFIG.allow_user_api_key
                           THEN Accepted /\ auth.upstream_key = <<key>>
                           ELSE Rejected
                 ELSE /\ Accepted
                      /\ auth.upstream_key =
                            IF \/ CONFIG.allow_user_api_key /\ key # ""
                               \/ CONFIG.api_key = ""
                            THEN <<key>>
                            ELSE <<CONFIG.api_key>>

C21_Witness ==
    /\ auth.route = "chat_completions"
    /\ CONFIG.access_keys = <<"k1", "k2">>
    /\ CONFIG.allow_user_api_key
    /\ auth.presented = <<"zz">>
    /\ Accepted
    /\ auth.upstream_key = <<"zz">>

----------------------------------------------------------------------------
(* Properties of history rewriting *)

\* an upstream request is made in this step
UpstreamCall == upstream_calls' # upstream_calls

\* the positions of the tool-result messages the engine added
AddedToolResults(msgs) ==
    {i \in (original_contents_length + 1)..Len(msgs) : HasFunctionResponse(msgs[i])}

ResponseTexts(message) ==
    {message.parts[k].text :
        k \in {j \in 1..Len(message.parts) : message.parts[j].kind = "functionResponse"}}

(* C22: in the conversation sent on every upstream call of the Gemini engines, every
   tool-result message the engine added (index >= N0) except the most recent one
   carries the 'call complete' placeholder in each of its results, and the most recent
   one carries the result its tool call came back with. *)
C22_OldResultsReplaced ==
    [][UpstreamCall =>
          LET msgs == sent'.contents
              added == AddedToolResults(msgs)
          IN  \A i \in added :
                  IF \A j \in added : j <= i
                  THEN /\ CallComplete \notin ResponseTexts(msgs[i])
                       /\ Last(msgs[i].parts).text = ResultOrFailed(last_tool_result)
                  ELSE ResponseTexts(msgs[i]) = {CallComplete}]_vars

C22_Witness ==
    /\ upstream_calls = max_iterations + 1
    /\ Cardinality(AddedToolResults(sent.contents)) = max_iterations
    /\ \E i \in AddedToolResults(sent.contents) :
          ResponseTexts(sent.contents[i]) = {CallComplete}
    /\ ResponseTexts(Last(sent.contents)) = {<<"R">>}

(* C23: on every upstream call, for every iteration count and also for a history of
   the caller that holds tool-result messages, the messages at indices < N0 of the
   conversation sent are the ones the caller sent, N0 is the length of the caller's
   list, and the caller's own list still holds what it held. *)
C23_PrefixPreserved ==
    GeminiMode =>
        /\ CallersContents = contents
        /\ contents_copy # <<>> =>
              /\ original_contents_length = Len(contents)
              /\ SubSeq(contents_copy, 1, original_contents_length) = contents
        /\ sent.contents # <<>> =>
              SubSeq(sent.contents, 1, original_contents_length) = contents

C23_Witness ==
    /\ upstream_calls = max_iterations + 1
    /\ Len(contents) = 3
    /\ HasFunctionResponse(contents[3])
    /\ Cardinality(AddedToolResults(sent.contents)) = max_iterations
    /\ SubSeq(sent.contents, 1, 3) = contents

----------------------------------------------------------------------------
(* Properties of tool dispatch *)

\* the calls of a message that the manager owns (the only tool of the manager is
\* ManagedTool, and a reply is classified as a whole)
ManagedCalls(calls) == SelectSeq(calls, LAMBDA fc : fc.name = ManagedTool)

NamesOf(items) == [i \in 1..Len(items) |-> items[i].name]

IdsOf(calls) == [i \in 1..Len(calls) |-> calls[i].id]

\* the conversation ends with a model message and the message of its tool results
EndsWithCallAndResults(msgs) ==
    /\ Len(msgs) >= 2
    /\ msgs[Len(msgs) - 1].role = "model"
    /\ ManagedCalls(_get_function_calls(msgs[Len(msgs) - 1].parts)) # <<>>
    /\ Last(msgs).role = "user"
    /\ \A k \in 1..Len(Last(msgs).parts) : Last(msgs).parts[k].kind = "functionResponse"
    /\ NamesOf(Last(msgs).parts) =
          NamesOf(ManagedCalls(_get_function_calls(msgs[Len(msgs) - 1].parts)))

\* the tool messages that follow the assistant message of the OpenAI dialect
LastAssistant ==
    CHOOSE i \in 0..Len(messages_copy) :
        /\ i > 0 => messages_copy[i].role = "assistant"
        /\ \A j \in (i + 1)..Len(messages_copy) : messages_copy[j].role # "assistant"

ToolMessagesAfterAssistant ==
    SubSeq(messages_copy, LastAssistant + 1, Len(messages_copy))

(* C24: for the manager-owned tool calls the engines execute, the working conversation
   holds the assistant message with the calls before the first of them is executed,
   the results follow it immediately, one per executed call, in call order and under
   the call's id (its name in the Gemini dialect, which has no id), and the pair is
   complete in the conversation of the next upstream call. *)
C24_CallThenResult ==
    /\ (GeminiMode /\ pc = "dispatch") =>
          /\ Last(contents_copy).role = "model"
          /\ NamesOf(function_responses) \o NamesOf(mcp_tool_calls) =
                NamesOf(ManagedCalls(_get_function_calls(Last(contents_copy).parts)))
    /\ (GeminiMode /\ pc \in {"loop", "upstream"} /\ iteration > 0) =>
          EndsWithCallAndResults(contents_copy)
    /\ (GeminiMode /\ Len(sent.contents) > original_contents_length) =>
          EndsWithCallAndResults(sent.contents)
    /\ (~GeminiMode /\ pc = "dispatch") =>
          /\ LastAssistant > 0
          /\ \A k \in 1..Len(ToolMessagesAfterAssistant) :
                ToolMessagesAfterAssistant[k].role = "tool"
          /\ [k \in 1..Len(ToolMessagesAfterAssistant) |->
                 ToolMessagesAfterAssistant[k].tool_call_id] \o IdsOf(mcp_tool_calls) =
                IdsOf(ManagedCalls(messages_copy[LastAssistant].tool_calls))
    /\ (~GeminiMode /\ pc = "loop" /\ iteration > 0) =>
          /\ LastAssistant > 0
          /\ ToolMessagesAfterAssistant # <<>>
          /\ \A k \in 1..Len(ToolMessagesAfterAssistant) :
                ToolMessagesAfterAssistant[k].role = "tool"
          /\ [k \in 1..Len(ToolMessagesAfterAssistant) |->
                 ToolMessagesAfterAssistant[k].tool_call_id] =
                IdsOf(ManagedCalls(messages_copy[LastAssistant].tool_calls))

C24_Witness ==
    /\ mode = "deepseek"
    /\ pc = "loop"
    /\ iteration = 2
    /\ Len(ToolMessagesAfterAssistant) = 2
    /\ ToolMessagesAfterAssistant[1].tool_call_id = "c4"
    /\ ToolMessagesAfterAssistant[2].tool_call_id = "c5"
    /\ ToolMessagesAfterAssistant[2].content = <<"R">>

----------------------------------------------------------------------------
(* Properties of the order of the streamed envelopes *)

\* the frames sent to the client in this step
NewFrames == SubSeq(out', Len(out) + 1, Len(out'))

\* the frame is the reasoning envelope made of one placeholder per call
PlaceholderFor(frame, calls) ==
    /\ frame.kind = "data"
    /\ AllParts(frame.envelope.candidates) =
          <<ThoughtPart(Join(<<"\n">>, Placeholders(calls)), "")>>

\* the stream carries a tool call and no error envelope
CallsNoError(chunks) ==
    /\ StreamCalls(chunks) # <<>>
    /\ \A k \in DOMAIN chunks : chunks[k].kind = "data"

(* C25: in the streaming Gemini engine no envelope that carries a tool call is sent to
   the client; when an upstream stream with tool calls has been read, the frames sent
   for it are the forwarded envelopes in arrival order followed by one reasoning
   envelope that holds one placeholder per tool call, no tool has been dispatched by
   then, and while the tools of the iteration are dispatched no envelope is sent. *)
C25_PlaceholderLast ==
    [][mode = "stream" =>
          /\ \A i \in DOMAIN out' : out'[i].kind = "data" => Forwardable(out'[i])
          /\ \A chunks \in StreamBodies :
                (CallsNoError(chunks) /\ stream_reply(StreamResponse(chunks))) =>
                    LET forwarded == SelectSeq(chunks, Forwardable)
                        ending == <<PlaceholderChunk(StreamCalls(chunks),
                                                     Last(chunks).envelope.fields)>>
                                      \o (IF pc' = "done" THEN <<DoneFrame>> ELSE <<>>)
                        n == Len(NewFrames) - Len(ending)
                    IN  /\ dispatched' = dispatched
                        /\ n \in 0..Len(forwarded)
                        /\ NewFrames = SubSeq(forwarded, 1, n) \o ending
          /\ (pc # "dispatch" /\ pc' = "dispatch") =>
                /\ dispatched' = dispatched
                /\ NewFrames # <<>>
                /\ PlaceholderFor(Last(NewFrames),
                                  _get_function_calls(Last(contents_copy').parts))
                /\ \A i \in 1..(Len(NewFrames) - 1) :
                      /\ \E chunks \in StreamBodies, k \in 1..2 :
                            k \in DOMAIN chunks /\ NewFrames[i] = chunks[k]
                      /\ ~PlaceholderFor(NewFrames[i],
                                         _get_function_calls(Last(contents_copy').parts))
          /\ pc = "dispatch" =>
                \A i \in DOMAIN NewFrames : NewFrames[i].kind # "data"]_vars

C25_Witness ==
    /\ mode = "stream"
    /\ pc = "dispatch"
    /\ dispatched = 0
    /\ function_responses = <<>>
    /\ out = <<DataChunk(ChunkThought),
               PlaceholderChunk(<<CallPart(ManagedTool, "{}", "sigC")>>, {"responseId"})>>

----------------------------------------------------------------------------
(* Properties of the concurrent updates of the enabled side-file *)

FileWorkersDone == \A w \in FileWorkers : file_workers[w].pc = "done"

\* what one update makes of the enabled set when it runs alone (lines 110-128)
UpdateAlone(worker, enabled) ==
    IF worker.op = "enable_server"
    THEN IF worker.name \in available THEN enabled \cup {worker.name} ELSE enabled
    ELSE enabled \ {worker.name}

\* C28: updates of the side-file for different names are both reflected in the file
\* once both have returned, and a reader only ever sees the file as it was at first or
\* as one of the updates saved it, never a partially written file
C28_UpdatesAtomic ==
    /\ (/\ FileWorkersDone
        /\ file_workers["w1"].name # file_workers["w2"].name)
           => get_enabled_servers(enabled_file) =
                  UpdateAlone(file_workers["w2"],
                              UpdateAlone(file_workers["w1"],
                                          get_enabled_servers(file_log.first)))
    /\ file_log.observed \in file_log.saved \cup {file_log.first}

----------------------------------------------------------------------------
(* Properties of the concurrent callers of one stdio adapter *)

\* the callers that hold the id of their request
HoldsId(c) == stdio_callers[c].pc \in {"register", "write", "get", "del", "done"}

\* C27: concurrent call_tool invocations on one stdio adapter get distinct request ids,
\* an answer is put only in the queue of the request that carried its id, and no
\* caller fails because another caller removed or replaced its slot
C27_DistinctIdsRightSlot ==
    /\ \A c1, c2 \in Callers :
           (c1 # c2 /\ HoldsId(c1) /\ HoldsId(c2))
               => stdio_callers[c1].request_id # stdio_callers[c2].request_id
    /\ \A c \in Callers :
           /\ \A i \in 1..Len(stdio_conn.queues[c]) : stdio_conn.queues[c][i].answers = c
           /\ stdio_callers[c].response.answers \in {"", c}
           /\ stdio_callers[c].raised = ""

----------------------------------------------------------------------------
(* Properties of the concurrent lifecycle operations of the manager *)

\* no worker is inside a lifecycle operation
Quiescent == \A w \in LifeWorkers : life_workers[w].pc = "idle"

\* the adapters made for a name whose child is running
LiveAdapters(name) ==
    {a \in 1..Len(adapters) :
        /\ adapters[a].name = name
        /\ adapters[a].process # 0
        /\ children[adapters[a].process] = "alive"}

\* C26: under any interleaving of start_server, stop_server and reload_config, once the
\* calls have returned no registered tool of a connected server is missing from the
\* tools map and no tool of a server that is not connected remains in it, and at no
\* time does a server name have two started adapters
C26_SerialOutcome ==
    /\ Quiescent =>
           /\ \A name \in connections :
                  \A q \in RegisteredBy(name) :
                      q \in DOMAIN manager_tools /\ manager_tools[q] = name
           /\ \A q \in DOMAIN manager_tools : manager_tools[q] \in connections
    /\ \A name \in LifeNames : Cardinality(LiveAdapters(name)) <= 1

\* an adapter holds a running child that no worker is starting or stopping
RunsChild(a) ==
    /\ adapters[a].process # 0
    /\ children[adapters[a].process] = "alive"
    /\ \A w \in LifeWorkers : life_workers[w].adapter # a

\* C29: a child that an adapter spawned is terminated once its server is stopped or
\* reloaded or its start() has failed: outside a running start or stop, no child is
\* alive while the name of its server is absent from the connections of the manager
C29_ChildTerminated ==
    \A a \in 1..Len(adapters) : RunsChild(a) => adapters[a].name \in connections

----------------------------------------------------------------------------
(* Properties of start() on a started adapter *)

AliveChildren == {c \in 1..Len(children) : children[c] = "alive"}

\* C30: start() on an adapter that is already running returns ok, spawns no second
\* child and leaves the tool list as it is; start_server of the manager for a server
\* that is running leaves connections and tools as they are
C30_StartIdempotent ==
    [][/\ \A outcome \in StartOutcomes :
              (adapter_start(1, outcome) /\ adapters[1].running)
                  => /\ harness'.returned
                     /\ children' = children
                     /\ adapters'[1].tools = adapters[1].tools
       /\ \A name \in OperandNames, started \in BOOLEAN :
              (manager_start_server(name, started) /\ name \in connections)
                  => UNCHANGED <<connections, manager_tools>>]_vars

----------------------------------------------------------------------------
(* Properties of the handshake of start() *)

\* C31: start() sends initialize, then the initialized notification, then tools/list;
\* tools/list is sent only after initialize returned a result and the notification was
\* sent; start() returns ok only if the handshake and tools/list succeeded, and an
\* adapter whose start() did not return ok is not registered
C31_HandshakeOrder ==
    /\ \E n \in 0..3 :
           handshake.sent =
               SubSeq(<<"initialize", "notifications/initialized", "tools/list">>, 1, n)
    /\ handshake.returned = "ok"
           => handshake.initialize = "result" /\ handshake.list \in {"result", "empty"}
    /\ handshake.registered => handshake.returned = "ok"

----------------------------------------------------------------------------
(* Properties of the assistant message of a tool iteration *)

RECURSIVE StreamedParts(_)
\* the parts of the data lines of a stream, in arrival order
StreamedParts(chunks) ==
    IF chunks = <<>> THEN <<>>
    ELSE (IF Head(chunks).kind = "data"
          THEN AllParts(Head(chunks).envelope.candidates) ELSE <<>>)
             \o StreamedParts(Tail(chunks))

\* C32 as stated: in both modes the appended assistant message holds every part the
\* upstream returned in the iteration, in order, signatures attached
C32_Original ==
    [][/\ \A response \in PartsReplies :
              (upstream_reply(response) /\ pc' = "dispatch")
                  => Last(contents_copy').parts = AllParts(response.envelope.candidates)
       /\ \A response \in PartsStreams :
              (stream_reply(response) /\ pc' = "dispatch")
                  => Last(contents_copy').parts = StreamedParts(response.chunks)]_vars

\* C32: in an iteration that executes manager-owned calls the appended assistant
\* message holds, in order and with every thoughtSignature unchanged on its part, the
\* parts of the first candidate of the reply (buffered mode) or the parts of every
\* candidate of every data line of the stream (streaming mode)
C32_PartsPreserved ==
    [][/\ \A response \in PartsReplies :
              (upstream_reply(response) /\ pc' = "dispatch")
                  => /\ Last(contents_copy').role = "model"
                     /\ Last(contents_copy').parts = response.envelope.candidates[1].parts
       /\ \A response \in PartsStreams :
              (stream_reply(response) /\ pc' = "dispatch")
                  => /\ Last(contents_copy').role = "model"
                     /\ Last(contents_copy').parts = StreamedParts(response.chunks)]_vars

\* a buffered iteration has appended the first candidate of a reply with two
\* candidates, its two signatures attached
C32_Witness ==
    /\ mode = "buffered"
    /\ pc = "dispatch"
    /\ last_result = ReplyTwoCandidates
    /\ Len(contents_copy) > 0
    /\ Last(contents_copy).parts =
           <<ThoughtPart(<<"A">>, "sigA"), CallPart(ManagedTool, "{}", "sigC")>>

----------------------------------------------------------------------------
(* Assembly of streamed tool calls *)

\* the fragments that arrived for one index, in arrival order
FragmentsOf(index) == SelectSeq(assembly.arrived, LAMBDA f : f.index = index)

RECURSIVE JoinNames(_)
JoinNames(fragments) ==
    IF fragments = <<>> THEN "" ELSE Head(fragments).name \o JoinNames(Tail(fragments))

RECURSIVE JoinArguments(_)
JoinArguments(fragments) ==
    IF fragments = <<>> THEN ""
    ELSE Head(fragments).arguments \o JoinArguments(Tail(fragments))

ArrivedIndexes == {assembly.arrived[k].index : k \in 1..Len(assembly.arrived)}

\* the position of an index among the indexes that arrived, in ascending order
Rank(index) == Cardinality({other \in ArrivedIndexes : other <= index})

ArrivedIds(index) ==
    {FragmentsOf(index)[k].id : k \in 1..Len(FragmentsOf(index))} \ {""}

StreamAssembled == assembly.pc \in {"loop", "done"} /\ assembly.arrived # <<>>

\* C34: when a stream has ended, the assembled list has one call for every index that
\* arrived, in ascending index order; the name and the arguments of a call are the
\* concatenation of the fragments of its index in arrival order, and its id is the one
\* id that arrived for the index, whichever fragment carried it
C34_AssembledByIndex ==
    StreamAssembled =>
        /\ Len(assembly.tool_calls_list) = Cardinality(ArrivedIndexes)
        /\ \A index \in ArrivedIndexes :
              LET call == assembly.tool_calls_list[Rank(index)]
              IN  /\ call.name = JoinNames(FragmentsOf(index))
                  /\ call.arguments = JoinArguments(FragmentsOf(index))
                  /\ \A id \in ArrivedIds(index) : ArrivedIds(index) = {id} => call.id = id

\* a stream whose indexes first appear in descending order, interleaved, with the id of
\* one index on its last fragment, has been assembled
C34_Witness ==
    /\ StreamAssembled
    /\ Len(assembly.arrived) = 4
    /\ assembly.arrived[1].index > assembly.arrived[2].index
    /\ FragmentsOf(0)[1].id = "" /\ FragmentsOf(0)[2].id = "c4"
    /\ assembly.tool_calls_list =
           <<ToolCall("c4", "srv_t", "{}", 0), ToolCall("c3", "srv_t", "{}", 0)>>

\* the messages of the working conversation that carry a tool-call id
AssistantMessagesWith(id) ==
    {k \in 1..Len(assembly.messages_copy) :
        /\ assembly.messages_copy[k].role = "assistant"
        /\ \E c \in 1..Len(assembly.messages_copy[k].tool_calls) :
              assembly.messages_copy[k].tool_calls[c].id = id}

ToolMessagesWith(id) ==
    {k \in 1..Len(assembly.messages_copy) :
        /\ assembly.messages_copy[k].role = "tool"
        /\ assembly.messages_copy[k].tool_call_id = id}

ConversationIds ==
    UNION {{assembly.messages_copy[k].tool_calls[c].id :
               c \in 1..Len(assembly.messages_copy[k].tool_calls)} :
           k \in {m \in 1..Len(assembly.messages_copy) :
                     assembly.messages_copy[m].role = "assistant"}}

\* the upstream never sent the same id twice in this request
UpstreamIdsDistinct ==
    \A j, k \in 1..Len(assembly.upstream_ids) :
        assembly.upstream_ids[j] = assembly.upstream_ids[k] => j = k

\* C33: in the working conversation of a streamed request whose upstream never repeats
\* an id, every tool-call id is carried by at most one assistant message and by at
\* most one tool message, also when the engine assigned the id
C33_IdsUnique ==
    UpstreamIdsDistinct =>
        \A id \in ConversationIds :
            /\ Cardinality(AssistantMessagesWith(id)) <= 1
            /\ Cardinality(ToolMessagesWith(id)) <= 1

----------------------------------------------------------------------------
(* Upstream requests of one iteration of the streaming engine *)

\* C35: the streaming engine of the Gemini dialect issues exactly one upstream request
\* in iteration 0 and, in iteration 1, at most api_retry_count + 1 requests in total,
\* whatever mix of statuses other than 200 and of in-stream errors the attempts produce
C35_StreamRequestsBounded ==
    mode = "stream" =>
        /\ iteration = 0 => upstream_calls <= 1
        /\ (iteration = 0 /\ pc \in {"dispatch", "done"}) => upstream_calls = 1
        /\ iteration = 1 => upstream_calls - 1 <= api_retry_count + 1

----------------------------------------------------------------------------
(* Tools of live servers *)

\* C36: after a call of start_server or stop_server, every tool that the adapter of a
\* server in connections lists is in the tools map under its qualified key and is owned
\* by that server, also when the qualified keys of two servers coincide
C36_LiveToolsOwned ==
    last_op.op \in {"start_server", "stop_server"} =>
    \A name \in connections :
        \A local \in ServerTools(name) :
            /\ QualifiedName(name, local) \in DOMAIN manager_tools
            /\ manager_tools[QualifiedName(name, local)] = name

----------------------------------------------------------------------------
(* Live servers and the enabled side-file *)

\* C37: a tool server is in connections only while its name is listed in the enabled
\* side-file: once disable_server has removed the name, no start_server brings the
\* server up until it is enabled again
C37_LiveOnlyWhileEnabled ==
    \A name \in connections : name \in get_enabled_servers(enabled_file)

----------------------------------------------------------------------------------------------------------------------------------------
(* The completion slots of the stdio adapter *)

InFlight(c) == stdio_callers[c].pc \notin {"idle", "done"}

Ended(c) == stdio_callers[c].pc = "done"

TimedOut(c) ==
    Ended(c) /\ stdio_callers[c].response = NoMessage /\ stdio_callers[c].raised = ""

\* the queue a caller registered is not in the map when its _send_request has returned
\* or raised, and the map is empty while no request is in flight
SlotsRemoved ==
    /\ \A c \in Callers :
          Ended(c) => \A id \in DOMAIN stdio_conn.pending_requests :
                         stdio_conn.pending_requests[id] # c
    /\ (\A c \in Callers : ~InFlight(c)) => stdio_conn.pending_requests = <<>>

\* the reply to a request that has timed out changes no queue
LateReplyDiscarded ==
    \A request \in Requests :
        (/\ request \in stdio_conn.stdin
         /\ TimedOut(request.from)
         /\ stdio_conn'.stdin = stdio_conn.stdin \ {request})
            => stdio_conn'.queues = stdio_conn.queues

\* C38: when _send_request has returned or raised (reply, timeout, write failure) its
\* slot is not in pending_requests, so the map is empty when no request is in flight;
\* a reply that arrives after its request timed out is discarded and is not delivered
\* to the slot of a request made later
C38_SlotRemovedLateDiscarded == []SlotsRemoved /\ [][LateReplyDiscarded]_vars

----------------------------------------------------------------------------
(* Requests without automatic tool execution *)

NoAutoExecute == ~(execute_mcp_tools /\ mcp_manager)

\* the engine dispatches nothing, stays in iteration 0 and calls the upstream once
NothingDispatched ==
    /\ dispatched = 0
    /\ pc # "dispatch"
    /\ iteration = 0
    /\ mcp_tool_calls = <<>>
    /\ upstream_calls <= 1
    /\ pc = "done" => upstream_calls = 1

\* the working conversation of the running engine is the conversation of the client
ConversationNotExtended ==
    pc # "start" =>
        IF GeminiMode THEN contents_copy = contents ELSE messages_copy = messages

\* C39 as stated: without execute_mcp_tools or without a manager no engine dispatches a
\* tool call, each makes exactly one upstream call, and the working conversation is
\* not extended
C39_Original == NoAutoExecute => (NothingDispatched /\ ConversationNotExtended)

\* C39: without execute_mcp_tools or without a manager no engine dispatches a tool
\* call and each makes exactly one upstream call, the request ending in iteration 0;
\* the working conversation stays the client's conversation, except that the buffered
\* engine of the OpenAI dialect has appended the assistant message of the reply, from
\* which it builds the reply it returns
C39_NoDispatchOneCall ==
    NoAutoExecute =>
        /\ NothingDispatched
        /\ mode # "deepseek" => ConversationNotExtended
        /\ (mode = "deepseek" /\ pc # "start") =>
              /\ Len(messages_copy) >= Len(messages)
              /\ Len(messages_copy) <= Len(messages) + 1
              /\ SubSeq(messages_copy, 1, Len(messages)) = messages
              /\ Len(messages_copy) = Len(messages) + 1 =>
                    /\ Last(messages_copy).role = "assistant"
                    /\ upstream_calls = 1

\* a streamed reply with a call of the manager's tool has ended the request of a client
\* that switched automatic execution off: placeholder, then [DONE]
C39_Witness ==
    /\ mode = "stream"
    /\ ~execute_mcp_tools
    /\ mcp_manager
    /\ ManagedTool \in DOMAIN manager_tools
    /\ pc = "done"
    /\ upstream_calls = 1
    /\ dispatched = 0
    /\ contents_copy = contents
    /\ out = <<DataChunk(ChunkThought),
               PlaceholderChunk(<<CallPart(ManagedTool, "{}", "sigC")>>, {"responseId"}),
               DoneFrame>>

----------------------------------------------------------------------------
(* The length of the working conversation *)

\* the messages at positions i and i + 1 are the model message of a tool iteration and
\* the user message with one functionResponse per manager-owned call, in call order
ToolIterationAt(msgs, i) ==
    /\ msgs[i].role = "model"
    /\ ManagedCalls(_get_function_calls(msgs[i].parts)) # <<>>
    /\ msgs[i + 1].role = "user"
    /\ \A k \in 1..Len(msgs[i + 1].parts) : msgs[i + 1].parts[k].kind = "functionResponse"
    /\ NamesOf(msgs[i + 1].parts) =
          NamesOf(ManagedCalls(_get_function_calls(msgs[i].parts)))

\* C40: in both modes of GeminiProxy, at the upstream call of iteration k the working
\* conversation has length N0 + 2k: the caller's N0 messages, then for every completed
\* tool iteration one model message followed by one user message with one
\* functionResponse per manager-owned call of the iteration, in call order
C40_LengthTwoPerIteration ==
    (GeminiMode /\ pc = "upstream") =>
        /\ original_contents_length = Len(contents)
        /\ Len(contents_copy) = original_contents_length + 2 * iteration
        /\ SubSeq(contents_copy, 1, original_contents_length) = contents
        /\ \A j \in 1..iteration :
              ToolIterationAt(contents_copy, original_contents_length + 2 * j - 1)

\* the upstream call of the third iteration of a streamed request, after two tool
\* iterations
C40_Witness ==
    /\ mode = "stream"
    /\ pc = "upstream"
    /\ iteration = 2
    /\ contents # <<>>
    /\ Len(contents_copy) = Len(contents) + 4
    /\ ToolIterationAt(contents_copy, Len(contents) + 3)

====
